---- MODULE Spec2Model ----
(***************************************************************************)
(* A model of the CanTrip LangGraph agent (backend/langgraph_agent):       *)
(*   - graph_enhanced.py : EnhancedTravelPlanningGraph, the graph the      *)
(*     service (main.py) runs: analyze_intent -> call_tools ->             *)
(*     generate_response -> finalize_response;                             *)
(*   - graph_simple.py   : SimpleTravelPlanningGraph, process_chat ->      *)
(*     finalize_response;                                                  *)
(*   - graph.py          : TravelPlanningGraph, the task-routed graph.     *)
(*                                                                         *)
(* Python values are modelled as follows.  A str is a TLA+ string (TLC     *)
(* gives Len, SubSeq and \o on strings, so `in`, lower() and title() are   *)
(* computed character by character).  None is the sentinel PyNone.  A list *)
(* is PyList(seq) and a dict is PyDict(function), so that [] and {} stay   *)
(* different values.  A confidence c is stored as the integer 10 * c.      *)
(***************************************************************************)
EXTENDS Integers, Sequences, FiniteSets, TLC

----------------------------------------------------------------------------
(* Python values *)

PyNone == "<None>"

PyList(items) == [type |-> "list", v |-> items]

PyDict(f) == [type |-> "dict", v |-> f]

EmptyList == PyList(<<>>)

EmptyDict == PyDict(<<>>)

\* a str held where a list or dict is expected
PyStr(s) == [type |-> "str", v |-> s]

\* None held where a list or dict is expected
NoneObj == [type |-> "NoneType", v |-> <<>>]

\* bool(x) of a str-or-None value: None and "" are falsy
Truthy(x) == x # PyNone /\ x # ""

\* f"{x}" of a str-or-None value
Fmt(x) == IF x = PyNone THEN "None" ELSE x

\* d[k] = val on a dict held as a TLA+ function
DictPut(d, k, val) == [x \in (DOMAIN d) \cup {k} |-> IF x = k THEN val ELSE d[x]]

Range(s) == {s[i] : i \in DOMAIN s}

----------------------------------------------------------------------------
(* str operations *)

UpperChars == <<"A", "B", "C", "D", "E", "F", "G", "H", "I", "J", "K", "L", "M",
                "N", "O", "P", "Q", "R", "S", "T", "U", "V", "W", "X", "Y", "Z", "È">>

LowerChars == <<"a", "b", "c", "d", "e", "f", "g", "h", "i", "j", "k", "l", "m",
                "n", "o", "p", "q", "r", "s", "t", "u", "v", "w", "x", "y", "z", "è">>

IsCased(c) == c \in Range(UpperChars) \cup Range(LowerChars)

LowerChar(c) ==
    IF c \in Range(UpperChars)
    THEN LowerChars[CHOOSE i \in DOMAIN UpperChars : UpperChars[i] = c]
    ELSE c

UpperChar(c) ==
    IF c \in Range(LowerChars)
    THEN UpperChars[CHOOSE i \in DOMAIN LowerChars : LowerChars[i] = c]
    ELSE c

CharAt(s, i) == SubSeq(s, i, i)

RECURSIVE LowerFrom(_, _)
LowerFrom(s, i) ==
    IF i > Len(s) THEN "" ELSE LowerChar(CharAt(s, i)) \o LowerFrom(s, i + 1)

\* str.lower()
Lower(s) == LowerFrom(s, 1)

RECURSIVE TitleFrom(_, _)
TitleFrom(s, i) ==
    IF i > Len(s) THEN ""
    ELSE (IF i = 1 \/ ~IsCased(CharAt(s, i - 1))
          THEN UpperChar(CharAt(s, i))
          ELSE LowerChar(CharAt(s, i))) \o TitleFrom(s, i + 1)

\* str.title(): a cased character is upper-cased after an uncased one (or at
\* the start) and lower-cased otherwise
Title(s) == TitleFrom(s, 1)

\* the element of a one-element set; { e(x) : x \in {v} } binds x to the value
\* of v, computed once
TheOne(S) == CHOOSE x \in S : TRUE

\* sub in s
Contains(s, sub) ==
    \E i \in 1..(Len(s) - Len(sub) + 1) : SubSeq(s, i, i + Len(sub) - 1) = sub

\* any(word in s for word in words)
AnyIn(words, s) == \E k \in DOMAIN words : Contains(s, words[k])

----------------------------------------------------------------------------
(* graph_enhanced.py: the intent classifier *)

canadian_cities ==
    <<"toronto", "vancouver", "montreal", "calgary", "ottawa", "edmonton",
      "winnipeg", "quebec city", "hamilton", "kitchener", "london", "victoria",
      "halifax", "oshawa", "windsor", "saskatoon", "regina", "sherbrooke",
      "barrie", "kelowna", "abbotsford", "kingston", "trois-rivières",
      "guelph", "cambridge", "whitby", "ajax", "milton", "st. catharines",
      "brantford", "thunder bay", "saint john", "peterborough", "red deer",
      "lethbridge", "kamloops", "nanaimo", "prince george", "chilliwack",
      "vernon", "fort mcmurray", "sarnia", "belleville", "charlottetown",
      "fredericton", "moncton", "saint john", "yellowknife", "whitehorse",
      "iqaluit", "banff", "whistler", "niagara falls", "jasper", "victoria">>

\* a faulty variant of detect_city_from_message: no city is ever detected
detect_city_never(message) == PyNone

\* the first gazetteer city that is a substring of the lower-cased message,
\* title-cased; None when there is none
detect_city_from_message(message) ==
    TheOne({ LET hits == {i \in DOMAIN canadian_cities : Contains(message_lower, canadian_cities[i])}
             IN  IF hits = {} THEN PyNone
                 ELSE Title(canadian_cities[CHOOSE i \in hits : \A j \in hits : i <= j])
             : message_lower \in {Lower(message)} })

events_words ==
    <<"event", "events", "concert", "show", "game", "sports", "festival",
      "happening", "this weekend", "tonight">>

weather_words ==
    <<"weather", "temperature", "climate", "rain", "snow", "sunny", "forecast",
      "hot", "cold">>

attractions_words ==
    <<"attraction", "attractions", "museum", "gallery", "landmark",
      "sightseeing", "visit", "see", "explore">>

planning_words ==
    <<"plan", "itinerary", "schedule", "trip", "visit", "go to", "travel",
      "day", "weekend">>

recommend_words ==
    <<"recommend", "suggest", "best", "popular", "good", "where to", "what to do">>

\* the five keyword tests in the order the code evaluates them:
\* <<keyword list, collaborator appended, intent assigned>>
IntentRules ==
    << <<events_words, "events", "events_inquiry">>,
       <<weather_words, "weather", "weather_inquiry">>,
       <<attractions_words, "attractions", "attractions_inquiry">>,
       <<planning_words, "planner", "planning_inquiry">>,
       <<recommend_words, "recommendations", "recommendations_inquiry">> >>

RECURSIVE ApplyRulesFirstWins(_, _, _)
\* a faulty variant of ApplyRules: the first matching category keeps the intent
ApplyRulesFirstWins(message, i, acc) ==
    IF i > Len(IntentRules) THEN acc
    ELSE ApplyRulesFirstWins(message, i + 1,
            IF AnyIn(IntentRules[i][1], message)
            THEN [tools_needed |-> Append(acc.tools_needed, IntentRules[i][2]),
                  intent |-> IF acc.tools_needed = <<>> THEN IntentRules[i][3] ELSE acc.intent]
            ELSE acc)

RECURSIVE ApplyRules(_, _, _)
\* acc = [tools_needed, intent] after the first i - 1 tests
ApplyRules(message, i, acc) ==
    IF i > Len(IntentRules) THEN acc
    ELSE ApplyRules(message, i + 1,
            IF AnyIn(IntentRules[i][1], message)
            THEN [tools_needed |-> Append(acc.tools_needed, IntentRules[i][2]),
                  intent |-> IntentRules[i][3]]
            ELSE acc)

\* the classification part of analyze_intent_node: message -> [city, tools_needed, intent]
Classify(rawMessage) ==
    TheOne({ LET kw == ApplyRules(message, 1, [tools_needed |-> <<>>, intent |-> "general_question"])
             IN  IF Truthy(city) /\ kw.tools_needed = <<>>
                 THEN [city |-> city, tools_needed |-> <<"recommendations", "attractions">>,
                       intent |-> "general_city_inquiry"]
                 ELSE [city |-> city, tools_needed |-> kw.tools_needed, intent |-> kw.intent]
             : message \in {Lower(rawMessage)},
               city \in {detect_city_from_message(rawMessage)} })

----------------------------------------------------------------------------
(* graph_enhanced.py: the stages *)

\* dict.get(key, default) on an input held as a TLA+ function
Get(d, k, default) == IF k \in DOMAIN d THEN d[k] ELSE default

\* run() has returned nothing
NoEnvelope == [shape |-> "none"]

\* what a node hands back to the graph runtime: the state it returns, or the
\* fact that an exception left the node
Returned(st) == [state |-> st, raised |-> FALSE]

Raised(st) == [state |-> st, raised |-> TRUE]

\* the state built by EnhancedTravelPlanningGraph.run before the graph starts
\* (context and history only reach the prompt text and are left out)
EnhancedInitialState(input_data) ==
    [message |-> Get(input_data, "message", ""),
     session_id |-> Get(input_data, "session_id", ""),
     response |-> "",
     intent |-> "",
     confidence |-> 0,
     suggestions |-> <<>>,
     data |-> EmptyDict,
     tools_used |-> <<>>,
     city_detected |-> PyNone]

\* classify.  The node has no try/except: state.get('message', '').lower()
\* raises AttributeError when the message is None, before anything is assigned.
analyze_intent_node(st) ==
    IF st.message = PyNone THEN Raised(st)
    ELSE LET c == Classify(st.message)
         IN  Returned([st EXCEPT !.city_detected = c.city,
                                 !.intent = c.intent,
                                 !.tools_used = c.tools_needed])

\* gather.  The adapter call sites of call_tools_node in program order; the
\* weather branch awaits two calls.
CallSites ==
    <<"events", "weather_current", "weather_forecast", "attractions",
      "recommendations", "planner">>

NumSites == Len(CallSites)

\* the collaborator a call site belongs to (the name tested in tools_needed)
SiteTool(i) ==
    IF CallSites[i] \in {"weather_current", "weather_forecast"} THEN "weather"
    ELSE CallSites[i]

\* the key of tool_results a collaborator's result is stored under
ResultKey(tool) == IF tool = "planner" THEN "plan" ELSE tool

\* the value stored when a collaborator's try block raises
FailureValue(tool) == IF tool \in {"weather", "planner"} THEN EmptyDict ELSE EmptyList

\* `if "<tool>" in tools_needed and city:`
SiteGuard(i, fr) == SiteTool(i) \in Range(fr.tools_needed) /\ Truthy(fr.city)

\* a faulty variant of Suspends: the call is issued and not awaited
SuspendsNever(i) == FALSE

\* `await`: the node is suspended until the call it has just issued returns or raises
Suspends(i) == TRUE

\* planner_tool.create_itinerary(city=, duration=, budget=, interests=) does not
\* match PlanningTool.create_itinerary(city, start_date, end_date, interests,
\* budget, group_size, pace, accommodation, weather): the call raises TypeError
\* before any coroutine exists, so this site never has a call outstanding.
RaisesAtCall(i) == CallSites[i] = "planner"

PutResult(fr, tool, val) ==
    [fr EXCEPT !.tool_results = DictPut(fr.tool_results, ResultKey(tool), val)]

\* the frame of call_tools_node when it is entered and the tools are built:
\* its locals, and for each call site the status of its call (calls) and the
\* value the call returned (got); at is the site whose call is awaited
NewFrame(st) ==
    [tools_needed |-> st.tools_used,
     city |-> st.city_detected,
     tool_results |-> <<>>,
     weather |-> NoneObj,
     built |-> TRUE,
     calls |-> [i \in 1..NumSites |-> "idle"],
     got |-> [i \in 1..NumSites |-> NoneObj],
     at |-> 0]

RECURSIVE RunFrom(_, _)
\* call_tools_node running on from call site i until it is suspended in an
\* await (at = the site) or has passed the last site (at = NumSites + 1)
RunFrom(fr, i) ==
    IF i > NumSites THEN [fr EXCEPT !.at = NumSites + 1]
    ELSE IF ~SiteGuard(i, fr) THEN RunFrom(fr, i + 1)
    ELSE IF RaisesAtCall(i)
         THEN RunFrom([PutResult(fr, SiteTool(i), FailureValue(SiteTool(i)))
                          EXCEPT !.calls[i] = "raised"], i + 1)
    ELSE IF Suspends(i) THEN [fr EXCEPT !.calls[i] = "outstanding", !.at = i]
    ELSE RunFrom([fr EXCEPT !.calls[i] = "outstanding"], i + 1)

\* a faulty variant of OnAdapterError: the failure discards what was gathered so far
OnAdapterErrorAbort(fr, i) == [fr EXCEPT !.tool_results = <<>>, !.calls[i] = "raised"]

\* the except branch of one collaborator's try block
OnAdapterError(fr, i) ==
    [PutResult(fr, SiteTool(i), FailureValue(SiteTool(i))) EXCEPT !.calls[i] = "raised"]

\* the rest of one collaborator's try block after its awaited call returned val
OnAdapterReturn(fr, i, val) ==
    LET done == [fr EXCEPT !.calls[i] = "returned", !.got[i] = val]
    IN  CASE CallSites[i] = "weather_current" -> [done EXCEPT !.weather = val]
          [] CallSites[i] = "weather_forecast" ->
                PutResult(done, "weather", PyDict([current |-> fr.weather, forecast |-> val]))
          [] OTHER -> PutResult(done, SiteTool(i), val)

\* call_tools_node resumed when the call at site fr.at ends with outcome
Resume(fr, outcome) ==
    LET i == fr.at
    IN  IF outcome.kind = "raise"
        THEN RunFrom(OnAdapterError(fr, i),
                     IF CallSites[i] = "weather_current" THEN i + 2 ELSE i + 1)
        ELSE RunFrom(OnAdapterReturn(fr, i, outcome.value), i + 1)

\* call_tools_node from its entry: building the five tools either raises (the
\* outer except stores an empty dict and the node returns) or the node runs on
\* to its first await
EnterCallTools(st, toolsBuilt) ==
    IF toolsBuilt THEN RunFrom(NewFrame(st), 1)
    ELSE [NewFrame(st) EXCEPT !.built = FALSE, !.tool_results = <<>>, !.at = NumSites + 1]

\* `state["data"] = tool_results` and the return of call_tools_node
call_tools_return(st, fr) == Returned([st EXCEPT !.data = PyDict(fr.tool_results)])

\* generate_suggestions(intent, city, tool_results)
generate_suggestions(intent, cityArg) ==
    LET city == Fmt(cityArg)
    IN  CASE intent = "events_inquiry" ->
               <<"What concerts are happening in " \o city \o "?",
                 "Are there any sports events in " \o city \o "?",
                 "What festivals are coming up in " \o city \o "?",
                 "Show me family-friendly events in " \o city>>
          [] intent = "weather_inquiry" ->
               <<"What's the weather forecast for " \o city \o "?",
                 "What should I pack for " \o city \o "?",
                 "Is it good weather for outdoor activities in " \o city \o "?",
                 "What's the best time to visit " \o city \o "?">>
          [] intent = "attractions_inquiry" ->
               <<"What are the must-see attractions in " \o city \o "?",
                 "Show me free attractions in " \o city,
                 "What museums are in " \o city \o "?",
                 "What outdoor attractions are in " \o city \o "?">>
          [] intent = "planning_inquiry" ->
               <<"Create a 3-day itinerary for " \o city,
                 "Plan a budget trip to " \o city,
                 "What should I do in " \o city \o " this weekend?",
                 "Plan a family trip to " \o city>>
          [] OTHER ->
               <<"Tell me about " \o city,
                 "What's the weather like in " \o city \o "?",
                 "What events are happening in " \o city \o "?",
                 "Plan a trip to " \o city>>

FallbackReply ==
    "I'm here to help with your Canadian travel planning! What would you like to know?"

FallbackSuggestions ==
    <<"Tell me about popular Canadian destinations", "Help me plan a trip">>

DefaultReply == "I'm here to help with your travel planning!"

\* a faulty variant of OnGenerationError: the fallback keeps the confidence of a
\* successful generation
OnGenerationErrorConfident(st) ==
    [state |-> [st EXCEPT !.response = FallbackReply,
                          !.suggestions = FallbackSuggestions,
                          !.confidence = 9],
     raised |-> FALSE]

\* the except branch of generate_response_node
OnGenerationError(st) ==
    Returned([st EXCEPT !.response = FallbackReply,
                        !.suggestions = FallbackSuggestions,
                        !.confidence = 5])

\* a faulty variant of generate_response_node: the stage relabels the intent
generate_response_node_relabel(st, gen) ==
    IF gen.kind = "raise" THEN OnGenerationError(st)
    ELSE Returned([st EXCEPT !.response = gen.content,
                             !.intent = "general",
                             !.suggestions = generate_suggestions("general", st.city_detected),
                             !.confidence = 9])

\* synthesize.  gen is what the try block meets: the model's reply, or an
\* exception from the router, the prompt construction or the model call.
generate_response_node(st, gen) ==
    IF gen.kind = "raise" THEN OnGenerationError(st)
    ELSE Returned([st EXCEPT !.response = gen.content,
                             !.suggestions = generate_suggestions(st.intent, st.city_detected),
                             !.confidence = 9])

\* a faulty variant of finalize_response_node: no default reply is substituted
finalize_response_node_keep(st) == Returned(st)

\* finalize (graph_enhanced.py and graph_simple.py have the same node)
finalize_response_node(st) ==
    IF ~Truthy(st.response) THEN Returned([st EXCEPT !.response = DefaultReply])
    ELSE Returned(st)

\* the envelope EnhancedTravelPlanningGraph.run builds from the final state
\* (the timestamp is left out)
EnhancedEnvelope(result) ==
    [shape |-> "chat",
     response |-> result.response,
     session_id |-> result.session_id,
     intent |-> result.intent,
     confidence |-> result.confidence,
     suggestions |-> result.suggestions,
     data |-> result.data,
     tools_used |-> result.tools_used,
     city_detected |-> result.city_detected]

\* a faulty variant of EnhancedFallbackEnvelope: the except branch returns nothing
EnhancedFallbackEnvelopeLost(input_data) == NoEnvelope

\* the envelope of the except branch of EnhancedTravelPlanningGraph.run
EnhancedFallbackEnvelope(input_data) ==
    [shape |-> "chat",
     response |-> FallbackReply,
     session_id |-> Get(input_data, "session_id", ""),
     intent |-> "general",
     confidence |-> 5,
     suggestions |-> <<"Tell me about popular Canadian destinations">>,
     data |-> EmptyDict,
     tools_used |-> <<>>,
     city_detected |-> PyNone]

----------------------------------------------------------------------------
(* graph_simple.py *)

SimpleInitialState(input_data) ==
    [message |-> Get(input_data, "message", ""),
     session_id |-> Get(input_data, "session_id", ""),
     response |-> "",
     intent |-> "",
     confidence |-> 0,
     suggestions |-> <<>>]

\* the if/elif chain of process_chat_node on message.lower()
SimpleIntent(message) ==
    LET m == Lower(message)
    IN  CASE AnyIn(<<"plan", "trip", "visit", "go to">>, m) -> "trip_planning"
          [] AnyIn(<<"weather", "temperature", "climate">>, m) -> "weather_inquiry"
          [] AnyIn(<<"pack", "packing", "bring">>, m) -> "packing_request"
          [] AnyIn(<<"itinerary", "schedule", "plan">>, m) -> "itinerary_request"
          [] OTHER -> "general_question"

SimpleSuggestions(intent) ==
    CASE intent = "trip_planning" ->
           <<"Tell me about popular Canadian destinations",
             "Help me plan a trip to Toronto",
             "What's the weather like in Vancouver?",
             "I need a budget-friendly trip to Montreal">>
      [] intent = "weather_inquiry" ->
           <<"What's the weather in Toronto?",
             "How's the weather in Vancouver?",
             "Weather forecast for Montreal",
             "Best time to visit Canada?">>
      [] OTHER ->
           <<"Tell me about popular Canadian destinations",
             "Help me plan a trip to Toronto",
             "What's the weather like in Vancouver?">>

\* the except branch of process_chat_node
SimpleOnError(st) ==
    Returned([st EXCEPT !.response = FallbackReply,
                        !.intent = "general",
                        !.suggestions = FallbackSuggestions,
                        !.confidence = 5])

\* process_chat_node.  With a None message the router's estimate_tokens
\* (len(text) // 4) raises inside the try block.
simple_process_chat_node(st, gen) ==
    IF st.message = PyNone \/ gen.kind = "raise" THEN SimpleOnError(st)
    ELSE LET intent == SimpleIntent(st.message)
         IN  Returned([st EXCEPT !.response = gen.content,
                                 !.intent = intent,
                                 !.suggestions = SimpleSuggestions(intent),
                                 !.confidence = 9])

SimpleEnvelope(result) ==
    [shape |-> "chat",
     response |-> result.response,
     session_id |-> result.session_id,
     intent |-> result.intent,
     confidence |-> result.confidence,
     suggestions |-> result.suggestions,
     data |-> EmptyDict]

SimpleFallbackEnvelope(input_data) ==
    [shape |-> "chat",
     response |-> FallbackReply,
     session_id |-> Get(input_data, "session_id", ""),
     intent |-> "general",
     confidence |-> 5,
     suggestions |-> <<"Tell me about popular Canadian destinations">>,
     data |-> EmptyDict]

----------------------------------------------------------------------------
(* graph.py: dates *)

Digits == <<"0", "1", "2", "3", "4", "5", "6", "7", "8", "9">>

IsDigit(c) == c \in Range(Digits)

DigitValue(c) == (CHOOSE i \in DOMAIN Digits : Digits[i] = c) - 1

AllDigits(s) == \A i \in 1..Len(s) : IsDigit(CharAt(s, i))

RECURSIVE ParseIntFrom(_, _, _)
ParseIntFrom(s, i, acc) ==
    IF i > Len(s) THEN acc ELSE ParseIntFrom(s, i + 1, 10 * acc + DigitValue(CharAt(s, i)))

\* int(s) of a string of digits
ParseInt(s) == ParseIntFrom(s, 1, 0)

IsLeap(y) == (y % 4 = 0 /\ y % 100 # 0) \/ y % 400 = 0

DaysInMonth(y, m) ==
    IF m = 2 THEN (IF IsLeap(y) THEN 29 ELSE 28)
    ELSE IF m \in {4, 6, 9, 11} THEN 30 ELSE 31

\* the number of the day y-m-d counted from 1970-01-01 (proleptic Gregorian)
DayNumber(y, m, d) ==
    LET yy == IF m <= 2 THEN y - 1 ELSE y
        era == yy \div 400
        yoe == yy - era * 400
        mp == IF m > 2 THEN m - 3 ELSE m + 9
        doy == (153 * mp + 2) \div 5 + d - 1
        doe == yoe * 365 + yoe \div 4 - yoe \div 100 + doy
    IN  era * 146097 + doe - 719468

\* datetime.strptime(s, "%Y-%m-%d") for the zero-padded form YYYY-MM-DD:
\* ok with the day number, or not ok where strptime raises ValueError
ParseDate(s) ==
    IF Len(s) = 10 /\ CharAt(s, 5) = "-" /\ CharAt(s, 8) = "-"
       /\ AllDigits(SubSeq(s, 1, 4)) /\ AllDigits(SubSeq(s, 6, 7))
       /\ AllDigits(SubSeq(s, 9, 10))
    THEN LET y == ParseInt(SubSeq(s, 1, 4))
             m == ParseInt(SubSeq(s, 6, 7))
             d == ParseInt(SubSeq(s, 9, 10))
         IN  IF y >= 1 /\ m \in 1..12 /\ d >= 1 /\ d <= DaysInMonth(y, m)
             THEN [ok |-> TRUE, day |-> DayNumber(y, m, d)]
             ELSE [ok |-> FALSE, day |-> 0]
    ELSE [ok |-> FALSE, day |-> 0]

DefaultDuration == 7

\* calculate_duration: (end - start).days, or 7 when either date does not parse
calculate_duration(start_date, end_date) ==
    LET start == ParseDate(start_date)
        end == ParseDate(end_date)
    IN  IF start.ok /\ end.ok THEN end.day - start.day ELSE DefaultDuration

----------------------------------------------------------------------------
(* tools/planner.py.  Money is held in cents, a rating in tenths, a time of   *)
(* day in minutes after midnight.                                              *)

PlannerDefaultDuration == 7

\* a faulty variant of planner_calculate_duration: the end date is not counted
planner_calculate_duration_exclusive(start_date, end_date) ==
    LET start == ParseDate(start_date)
        end == ParseDate(end_date)
    IN  IF start.ok /\ end.ok THEN end.day - start.day ELSE PlannerDefaultDuration

\* _calculate_duration: (end - start).days + 1, or 7 when a date does not parse
planner_calculate_duration(start_date, end_date) ==
    LET start == ParseDate(start_date)
        end == ParseDate(end_date)
    IN  IF start.ok /\ end.ok THEN end.day - start.day + 1 ELSE PlannerDefaultDuration

Pad(n, width) ==
    LET s == ToString(n)
    IN  [k \in 0..4 |-> CASE k = 0 -> "" [] k = 1 -> "0" [] k = 2 -> "00"
                           [] k = 3 -> "000" [] OTHER -> "0000"][
            IF Len(s) >= width THEN 0 ELSE width - Len(s)] \o s

\* strftime("%Y-%m-%d") of the day with number n
FormatDate(n) ==
    LET z == n + 719468
        era == z \div 146097
        doe == z - era * 146097
        yoe == (doe - doe \div 1460 + doe \div 36524 - doe \div 146096) \div 365
        doy == doe - (365 * yoe + yoe \div 4 - yoe \div 100)
        mp == (5 * doy + 2) \div 153
        d == doy - (153 * mp + 2) \div 5 + 1
        m == IF mp < 10 THEN mp + 3 ELSE mp - 9
        y == yoe + era * 400 + (IF m <= 2 THEN 1 ELSE 0)
    IN  Pad(y, 4) \o "-" \o Pad(m, 2) \o "-" \o Pad(d, 2)

\* _add_days_to_date: the date string unchanged when it does not parse
add_days_to_date(date_str, days) ==
    LET date == ParseDate(date_str)
    IN  IF date.ok THEN FormatDate(date.day + days) ELSE date_str

\* the sample activities of _get_available_activities (the hours and the
\* description, which nothing reads, are left out)
SampleActivities ==
    << [name |-> "City Museum", type |-> "museum", duration |-> 120, cost |-> 2500,
        location |-> "Downtown", rating |-> 45, category |-> "cultural"],
       [name |-> "Central Park", type |-> "park", duration |-> 90, cost |-> 0,
        location |-> "City Center", rating |-> 43, category |-> "outdoor"],
       [name |-> "Local Restaurant", type |-> "restaurant", duration |-> 60, cost |-> 4500,
        location |-> "Downtown", rating |-> 42, category |-> "food"],
       [name |-> "Shopping District", type |-> "shopping", duration |-> 90, cost |-> 0,
        location |-> "Downtown", rating |-> 40, category |-> "shopping"] >>

RECURSIVE Filter(_, _, _)
\* [x for x in xs if keep[x's index]], from index i on
Filter(xs, keep, i) ==
    IF i > Len(xs) THEN <<>>
    ELSE (IF keep[i] THEN <<xs[i]>> ELSE <<>>) \o Filter(xs, keep, i + 1)

\* _get_available_activities: the sample activities that cost at most the
\* budget and, when interests are given, whose category contains an interest
get_available_activities(city, interests, budget) ==
    Filter(SampleActivities,
           [i \in DOMAIN SampleActivities |->
               /\ SampleActivities[i].cost <= budget
               /\ \/ interests = <<>>
                  \/ \E k \in DOMAIN interests :
                        Contains(Lower(SampleActivities[i].category), Lower(interests[k]))],
           1)

RelaxedCap == 3

ModerateCap == 5

IntenseCap == 8

DefaultCap == 5

\* a faulty variant of get_max_activities_for_pace: the pace is looked up as written
get_max_activities_for_pace_as_written(pace) ==
    CASE pace = "relaxed" -> RelaxedCap
      [] pace = "moderate" -> ModerateCap
      [] pace = "intense" -> IntenseCap
      [] OTHER -> DefaultCap

\* _get_max_activities_for_pace
get_max_activities_for_pace(pace) ==
    CASE Lower(pace) = "relaxed" -> RelaxedCap
      [] Lower(pace) = "moderate" -> ModerateCap
      [] Lower(pace) = "intense" -> IntenseCap
      [] OTHER -> DefaultCap

ColdLimit == 5

HotLimit == 35

DefaultTemperature == 20

\* a faulty variant of is_weather_compatible: the temperature is not looked at
is_weather_compatible_any_temperature(activity, weather) ==
    IF weather.v = <<>> THEN TRUE
    ELSE LET condition == Lower(Get(weather.v, "condition", ""))
         IN  IF activity.category = "outdoor"
             THEN ~(Contains(condition, "rain") \/ Contains(condition, "snow"))
             ELSE TRUE

\* _is_weather_compatible; weather is a dict
is_weather_compatible(activity, weather) ==
    IF weather.v = <<>> THEN TRUE
    ELSE LET condition == Lower(Get(weather.v, "condition", ""))
             temperature == Get(weather.v, "temperature", DefaultTemperature)
         IN  IF activity.category = "outdoor"
             THEN ~(Contains(condition, "rain") \/ Contains(condition, "snow"))
                  /\ ~(temperature < ColdLimit \/ temperature > HotLimit)
             ELSE TRUE

RECURSIVE InsertByRating(_, _)
\* a inserted into the list xs, sorted by rating descending, after the
\* entries rated as high as a
InsertByRating(xs, a) ==
    IF xs = <<>> THEN <<a>>
    ELSE IF Get(Head(xs), "rating", 0) >= Get(a, "rating", 0)
         THEN <<Head(xs)>> \o InsertByRating(Tail(xs), a)
         ELSE <<a>> \o xs

RECURSIVE InsertBeforeTies(_, _)
\* a inserted into the list xs, sorted by rating descending, before the
\* entries rated as high as a
InsertBeforeTies(xs, a) ==
    IF xs = <<>> THEN <<a>>
    ELSE IF Get(Head(xs), "rating", 0) > Get(a, "rating", 0)
         THEN <<Head(xs)>> \o InsertBeforeTies(Tail(xs), a)
         ELSE <<a>> \o xs

RECURSIVE SortedByRatingTiesReversed(_, _)
\* a faulty variant of SortedByRating: equally rated entries come out in the
\* reverse of their order
SortedByRatingTiesReversed(activities, n) ==
    IF n = 0 THEN <<>>
    ELSE InsertBeforeTies(SortedByRatingTiesReversed(activities, n - 1), activities[n])

RECURSIVE SortedByRating(_, _)
\* sorted(activities, key=rating, reverse=True): stable, so equally rated
\* entries keep their order; the first n entries sorted
SortedByRating(activities, n) ==
    IF n = 0 THEN <<>> ELSE InsertByRating(SortedByRating(activities, n - 1), activities[n])

\* activity[key] raises KeyError
Lacks(activity, key) == key \notin DOMAIN activity

\* the body of the loop of _select_activities_for_day raises KeyError on
\* activity: at activity["cost"], or at activity["category"] in
\* _is_weather_compatible, reached when the cost fits and weather is not empty
SelectRaisesAt(activity, remaining_budget, weather) ==
    \/ Lacks(activity, "cost")
    \/ /\ activity.cost <= remaining_budget
       /\ weather.v # <<>>
       /\ Lacks(activity, "category")

RECURSIVE SelectFromWholeBudget(_, _, _, _, _, _)
\* a faulty variant of SelectFrom: the cost of an accepted activity is not
\* taken off the remaining budget
SelectFromWholeBudget(sorted, i, selected, remaining_budget, max_activities, weather) ==
    IF i > Len(sorted) \/ Len(selected) >= max_activities
    THEN [raised |-> FALSE, selected |-> selected]
    ELSE IF SelectRaisesAt(sorted[i], remaining_budget, weather)
    THEN [raised |-> TRUE, selected |-> selected]
    ELSE IF sorted[i].cost <= remaining_budget /\ is_weather_compatible(sorted[i], weather)
         THEN SelectFromWholeBudget(sorted, i + 1, Append(selected, sorted[i]),
                                    remaining_budget, max_activities, weather)
         ELSE SelectFromWholeBudget(sorted, i + 1, selected, remaining_budget,
                                    max_activities, weather)

RECURSIVE SelectFrom(_, _, _, _, _, _)
\* the loop of _select_activities_for_day from entry i of the sorted list on:
\* the activities selected, and whether the loop raised
SelectFrom(sorted, i, selected, remaining_budget, max_activities, weather) ==
    IF i > Len(sorted) \/ Len(selected) >= max_activities
    THEN [raised |-> FALSE, selected |-> selected]
    ELSE IF SelectRaisesAt(sorted[i], remaining_budget, weather)
    THEN [raised |-> TRUE, selected |-> selected]
    ELSE IF sorted[i].cost <= remaining_budget /\ is_weather_compatible(sorted[i], weather)
         THEN SelectFrom(sorted, i + 1, Append(selected, sorted[i]),
                         remaining_budget - sorted[i].cost, max_activities, weather)
         ELSE SelectFrom(sorted, i + 1, selected, remaining_budget, max_activities, weather)

\* _select_activities_for_day
select_activities_for_day(activities, max_activities, budget, weather) ==
    SelectFrom(SortedByRating(activities, Len(activities)), 1, <<>>, budget,
               max_activities, weather)

DayStart == 540

TravelMinutes == 30

BreakMinutes == 30

\* strftime("%H:%M") of the time t minutes after the midnight of the day
FormatHM(t) == Pad((t \div 60) % 24, 2) \o ":" \o Pad(t % 60, 2)

\* the keys _schedule_activities subscripts (the description apart)
ScheduledKeys == {"name", "type", "location", "duration", "cost", "category", "rating"}

RECURSIVE ScheduleFromNoBreak(_, _, _)
\* a faulty variant of ScheduleFrom: no break follows an activity
ScheduleFromNoBreak(activities, i, current_time) ==
    IF i > Len(activities) THEN <<>>
    ELSE LET start_time == IF i > 1 THEN current_time + TravelMinutes ELSE current_time
             end_time == start_time + activities[i].duration
         IN  << [name |-> activities[i].name,
                 type |-> activities[i].type,
                 location |-> activities[i].location,
                 start_time |-> FormatHM(start_time),
                 end_time |-> FormatHM(end_time),
                 duration |-> activities[i].duration,
                 cost |-> activities[i].cost,
                 category |-> activities[i].category,
                 rating |-> activities[i].rating] >>
             \o ScheduleFromNoBreak(activities, i + 1, end_time)

RECURSIVE ScheduleFrom(_, _, _)
\* the loop of _schedule_activities from entry i on; current_time is the time
\* after entry i - 1 and its break
ScheduleFrom(activities, i, current_time) ==
    IF i > Len(activities) THEN <<>>
    ELSE LET start_time == IF i > 1 THEN current_time + TravelMinutes ELSE current_time
             end_time == start_time + activities[i].duration
             next_time == IF i < Len(activities) THEN end_time + BreakMinutes ELSE end_time
         IN  << [name |-> activities[i].name,
                 type |-> activities[i].type,
                 location |-> activities[i].location,
                 start_time |-> FormatHM(start_time),
                 end_time |-> FormatHM(end_time),
                 duration |-> activities[i].duration,
                 cost |-> activities[i].cost,
                 category |-> activities[i].category,
                 rating |-> activities[i].rating] >>
             \o ScheduleFrom(activities, i + 1, next_time)

\* _schedule_activities
schedule_activities(activities, date) == ScheduleFrom(activities, 1, DayStart)

meal_types == <<"breakfast", "lunch", "dinner">>

meal_times == <<"08:00", "12:30", "19:00">>

meal_costs == <<1500, 2500, 3500>>

\* _plan_meals
plan_meals(city, date, budget, group_size) ==
    [i \in DOMAIN meal_types |->
        [type |-> meal_types[i],
         name |-> Title(meal_types[i]) \o " at Local Restaurant",
         location |-> "Downtown " \o city,
         time |-> meal_times[i],
         cost |-> meal_costs[i] * group_size,
         cuisine |-> "Local specialties",
         reservation |-> FALSE]]

\* planning_rules["transport_modes"][mode]["cost"]
transport_cost == [walking |-> 0, public_transit |-> 350, taxi |-> 1500, uber |-> 1200]

\* a faulty variant of is_walking_distance: no two activities are within a walk
is_walking_distance_never(activity1, activity2) == FALSE

\* _is_walking_distance
is_walking_distance(activity1, activity2) == activity1.location = activity2.location

\* _plan_transportation: one leg between each two consecutive activities
plan_transportation(activities) ==
    [i \in 1..(Len(activities) - 1) |->
        LET transport_mode ==
                IF is_walking_distance(activities[i], activities[i + 1])
                THEN "walking" ELSE "public_transit"
        IN  [type |-> transport_mode,
             from |-> activities[i].location,
             to |-> activities[i + 1].location,
             start_time |-> activities[i].end_time,
             end_time |-> activities[i + 1].start_time,
             cost |-> transport_cost[transport_mode],
             duration |-> TravelMinutes]]

RECURSIVE SumCost(_, _)
\* sum(x["cost"] for x in xs), from index i on
SumCost(xs, i) == IF i > Len(xs) THEN 0 ELSE xs[i].cost + SumCost(xs, i + 1)

\* a faulty variant of calculate_day_cost: the transport legs are counted once,
\* not once per traveller
calculate_day_cost_one_fare(activities, meals, transport, group_size) ==
    SumCost(activities, 1) + SumCost(meals, 1) + SumCost(transport, 1)

\* _calculate_day_cost
calculate_day_cost(activities, meals, transport, group_size) ==
    SumCost(activities, 1) + SumCost(meals, 1) + SumCost(transport, 1) * group_size

RECURSIVE Join(_, _, _)
\* sep.join(parts), from index i on
Join(parts, sep, i) ==
    IF i > Len(parts) THEN ""
    ELSE IF i = Len(parts) THEN parts[i]
    ELSE parts[i] \o sep \o Join(parts, sep, i + 1)

\* _generate_day_notes
generate_day_notes(weather, activities) ==
    LET outdoor_count == Cardinality({i \in DOMAIN activities : activities[i].category = "outdoor"})
    IN  Join((IF weather.v # <<>>
              THEN << "Weather: " \o Get(weather.v, "condition", "") \o ", "
                      \o ToString(Get(weather.v, "temperature", DefaultTemperature)) \o "°C" >>
              ELSE <<>>)
             \o (IF outdoor_count > 0
                 THEN <<ToString(outdoor_count) \o " outdoor activities planned">>
                 ELSE <<>>)
             \o <<"Remember to bring comfortable walking shoes">>,
             "; ", 1)

\* the except branch of _plan_day
PlanDayError(day, date) ==
    [day |-> day, date |-> date, activities |-> <<>>, meals |-> <<>>, transport |-> <<>>,
     total_cost |-> 0, notes |-> "Error planning this day"]

\* _plan_day.  The try block raises KeyError when the selection raises it, or
\* when a selected activity lacks a key that _schedule_activities subscripts.
plan_day(city, day, date, activities, budget, group_size, pace, weather) ==
    LET max_activities == get_max_activities_for_pace(pace)
        selection == select_activities_for_day(activities, max_activities, budget, weather)
        selected_activities == selection.selected
    IN  IF \/ selection.raised
           \/ \E i \in DOMAIN selected_activities :
                 \E key \in ScheduledKeys : Lacks(selected_activities[i], key)
        THEN PlanDayError(day, date)
        ELSE LET scheduled_activities == schedule_activities(selected_activities, date)
                 meals == plan_meals(city, date, budget, group_size)
                 transport == plan_transportation(scheduled_activities)
             IN  [day |-> day,
                  date |-> date,
                  activities |-> scheduled_activities,
                  meals |-> meals,
                  transport |-> transport,
                  total_cost |-> calculate_day_cost(scheduled_activities, meals, transport,
                                                    group_size),
                  notes |-> generate_day_notes(weather, selected_activities)]

\* f"{amount:.2f}" of an amount held in cents
FormatMoney(cents) == ToString(cents \div 100) \o "." \o Pad(cents % 100, 2)

\* _create_itinerary_summary
create_itinerary_summary(city, duration, total_cost, interests) ==
    ToString(duration) \o "-day trip to " \o city
        \o (IF interests # <<>> THEN " focusing on " \o Join(interests, ", ", 1) ELSE "")
        \o ". Total estimated cost: $" \o FormatMoney(total_cost)

RECURSIVE SumTotalCostActivitiesOnly(_, _)
\* a faulty variant of SumTotalCost: the trip total adds up the activities only
SumTotalCostActivitiesOnly(daily_plans, i) ==
    IF i > Len(daily_plans) THEN 0
    ELSE SumCost(daily_plans[i].activities, 1) + SumTotalCostActivitiesOnly(daily_plans, i + 1)

RECURSIVE SumTotalCost(_, _)
\* the running total_cost of create_itinerary over the day plans from i on
SumTotalCost(daily_plans, i) ==
    IF i > Len(daily_plans) THEN 0
    ELSE daily_plans[i].total_cost + SumTotalCost(daily_plans, i + 1)

\* the activities of pool that no Day Plan of plans holds
Unused(pool, plans) ==
    Filter(pool,
           [i \in DOMAIN pool |->
               \A d \in DOMAIN plans : \A k \in DOMAIN plans[d].activities :
                   plans[d].activities[k].name # pool[i].name],
           1)

RECURSIVE PlanDaysConsuming(_, _, _, _, _, _, _, _)
\* the Day Plans of days 1..duration when an activity scheduled on a day is
\* taken out of the pool of the days after it
PlanDaysConsuming(city, start_date, duration, activities, budget, group_size, pace, weather) ==
    IF duration <= 0 THEN <<>>
    ELSE LET earlier == PlanDaysConsuming(city, start_date, duration - 1, activities, budget,
                                          group_size, pace, weather)
         IN  Append(earlier,
                    plan_day(city, duration, add_days_to_date(start_date, duration - 1),
                             Unused(activities, earlier), budget, group_size, pace, weather))

\* a faulty variant of create_itinerary: a day is planned on what the days
\* before it left of the pool
create_itinerary_consuming(city, start_date, end_date, interests, budget, group_size, pace, accommodation, weather) ==
    LET duration == planner_calculate_duration(start_date, end_date)
        activities == get_available_activities(city, interests, budget)
        daily_plans == PlanDaysConsuming(city, start_date, duration, activities, budget,
                                         group_size, pace, weather)
        total_cost == SumTotalCost(daily_plans, 1)
    IN  [city |-> city,
         start_date |-> start_date,
         end_date |-> end_date,
         duration |-> duration,
         group_size |-> group_size,
         pace |-> pace,
         accommodation |-> accommodation,
         total_cost |-> total_cost,
         summary |-> create_itinerary_summary(city, duration, total_cost, interests),
         days |-> daily_plans]

\* create_itinerary (created_at, a timestamp, is left out)
create_itinerary(city, start_date, end_date, interests, budget, group_size, pace, accommodation, weather) ==
    LET duration == planner_calculate_duration(start_date, end_date)
        activities == get_available_activities(city, interests, budget)
        daily_plans ==
            [day \in 1..duration |->
                plan_day(city, day, add_days_to_date(start_date, day - 1), activities,
                         budget, group_size, pace, weather)]
        total_cost == SumTotalCost(daily_plans, 1)
    IN  [city |-> city,
         start_date |-> start_date,
         end_date |-> end_date,
         duration |-> duration,
         group_size |-> group_size,
         pace |-> pace,
         accommodation |-> accommodation,
         total_cost |-> total_cost,
         summary |-> create_itinerary_summary(city, duration, total_cost, interests),
         days |-> daily_plans]

----------------------------------------------------------------------------
(* Requests *)

ChatMessages ==
    {"What events are happening in Toronto this weekend?",
     "weather and events in toronto",
     "What's the weather like?",
     "",
     "Tell me about Vancouver",
     "Recommend events, weather and attractions for a trip to Montreal",
     "Any good museum in Ottawa?"}

\* the inputs main.py builds for its four endpoints, and two inputs a direct
\* caller of run(input_data: Dict[str, Any]) can pass: a None message and a
\* None message log
Requests ==
    {[task |-> "chat", message |-> m, session_id |-> "s1"] : m \in ChatMessages \cup {PyNone}}
    \cup {[task |-> "generate_itinerary", city |-> "Toronto",
           start_date |-> "2024-07-01", end_date |-> "2024-07-03"],
          [task |-> "explore_destination", city |-> "Vancouver", duration |-> 7],
          [task |-> "generate_packing_list", destination |-> "Banff",
           start_date |-> "2024-12-30", end_date |-> "2025-01-02", weather |-> PyStr("")],
          [task |-> "explore_destination", city |-> "Calgary", messages |-> NoneObj]}

----------------------------------------------------------------------------
(* graph.py: the task-routed graph *)

Whitespace == {" ", "\n", "\t"}

RECURSIVE StripLeft(_)
StripLeft(s) ==
    IF Len(s) > 0 /\ CharAt(s, 1) \in Whitespace THEN StripLeft(SubSeq(s, 2, Len(s))) ELSE s

RECURSIVE StripRight(_)
StripRight(s) ==
    IF Len(s) > 0 /\ CharAt(s, Len(s)) \in Whitespace
    THEN StripRight(SubSeq(s, 1, Len(s) - 1)) ELSE s

\* str.strip()
Strip(s) == StripLeft(StripRight(s))

RECURSIVE WordStart(_, _)
\* the index at which the word ending at index i of s starts
WordStart(s, i) ==
    IF i > 1 /\ CharAt(s, i - 1) \notin Whitespace THEN WordStart(s, i - 1) ELSE i

\* s.split()[-1] of a string with at least one word
LastWord(s) == LET t == StripRight(s) IN SubSeq(t, WordStart(t, Len(t)), Len(t))

\* the attributes of a fresh TravelState() that the nodes and run() use
\* (mood, activities, age_group, special_needs, context and history only
\* reach prompts); budget is in cents
TravelStateDefaults ==
    [messages |-> EmptyList,
     task |-> "",
     city |-> "",
     destination |-> "",
     start_date |-> "",
     end_date |-> "",
     interests |-> <<>>,
     budget |-> 100000,
     group_size |-> 1,
     pace |-> "moderate",
     accommodation |-> "mid-range",
     duration |-> 7,
     weather |-> EmptyDict,
     events |-> EmptyList,
     attractions |-> EmptyList,
     suggestions |-> EmptyList,
     itinerary |-> EmptyDict,
     packing_list |-> EmptyDict,
     message |-> "",
     session_id |-> "",
     response |-> "",
     intent |-> "",
     confidence |-> 0]

\* `for key, value in input_data.items(): if hasattr(state, key): setattr(...)`
BasicInitialState(input_data) ==
    [k \in DOMAIN TravelStateDefaults |->
        IF k \in DOMAIN input_data THEN input_data[k] ELSE TravelStateDefaults[k]]

\* state.messages.append(AIMessage(content)); AttributeError on a None log
LogAppend(st, content) ==
    [st EXCEPT !.messages = PyList(Append(st.messages.v, content))]

\* analyze_request_node (no try/except)
analyze_request_node(st) ==
    LET st1 == IF st.task \in {"generate_itinerary", "generate_packing_list"}
               THEN [st EXCEPT !.duration = calculate_duration(st.start_date, st.end_date)]
               ELSE st
    IN  IF st1.messages.type # "list" THEN Raised(st1)
        ELSE Returned(LogAppend(st1, "Analyzed request for task: " \o st1.task))

\* process_chat_node of graph.py: llm is the outcome of llm.invoke
basic_process_chat_node(st, llm) ==
    LET intent == IF llm.kind = "raise" THEN "general_question"
                  ELSE Lower(Strip(llm.content))
        reply ==
          CASE intent = "destination_inquiry" ->
                 [response |-> "I'd be happy to tell you about " \o LastWord(st.message)
                      \o "! What specific information are you looking for - attractions, weather, culture, or something else?",
                  suggestions |-> <<"Tell me about attractions", "What's the weather like?",
                                    "Give me cultural tips">>]
            [] intent = "trip_planning" ->
                 [response |-> "Great! I can help you plan your trip across Canada. To get started, could you tell me your destination, travel dates, and what interests you?",
                  suggestions |-> <<"I want to go to Toronto", "Help me plan a trip to Vancouver",
                                    "I need a budget-friendly trip to Montreal">>]
            [] intent = "weather_inquiry" ->
                 [response |-> "I can help you check the weather for your Canadian destination. Which city or province are you interested in?",
                  suggestions |-> <<"What's the weather in Toronto?",
                                    "How's the weather in Vancouver?",
                                    "Weather forecast for Montreal">>]
            [] intent = "itinerary_request" ->
                 [response |-> "I'd love to create an itinerary for your Canadian adventure! Please share your destination, dates, and interests.",
                  suggestions |-> <<"Create a 7-day Toronto itinerary", "Plan a weekend in Vancouver",
                                    "Make an itinerary for Montreal">>]
            [] intent = "packing_request" ->
                 [response |-> "I can help you create a packing list for your Canadian trip! Tell me your destination, travel dates, and planned activities.",
                  suggestions |-> <<"Packing list for Toronto", "What to pack for Vancouver",
                                    "Winter travel packing list for Canada">>]
            [] OTHER ->
                 [response |-> "I'm your AI Canadian travel assistant! I can help you plan trips across Canada, suggest destinations, create itineraries, check weather, and more. What would you like to know?",
                  suggestions |-> <<"Tell me about popular Canadian destinations",
                                    "Help me plan a trip to Toronto",
                                    "What's the weather like in Vancouver?">>]
    IN  IF intent = "destination_inquiry" /\ Strip(st.message) = ""
        THEN Raised(st)   \* message.split()[-1]: IndexError, outside any try
        ELSE Returned([st EXCEPT !.intent = intent,
                                 !.response = reply.response,
                                 !.suggestions = PyList(reply.suggestions),
                                 !.confidence = 8])

SimulatedWeather ==
    PyDict([temperature |-> 22, condition |-> "Sunny", humidity |-> 65, wind_speed |-> 10])

get_weather_node(st) ==
    Returned(LogAppend([st EXCEPT !.weather = SimulatedWeather],
                       "Weather data retrieved for " \o st.city))

\* get_events_node: out is the outcome of events_tool.get_events(state.city)
get_events_node(st, out) ==
    IF out.kind = "raise" THEN Returned([st EXCEPT !.events = EmptyList])
    ELSE Returned(LogAppend([st EXCEPT !.events = out.value],
            "Retrieved " \o ToString(Len(out.value.v)) \o " events for " \o st.city))

get_attractions_node(st, out) ==
    IF out.kind = "raise" THEN Returned([st EXCEPT !.attractions = EmptyList])
    ELSE Returned(LogAppend([st EXCEPT !.attractions = out.value],
            "Retrieved " \o ToString(Len(out.value.v)) \o " attractions for " \o st.city))

\* generate_suggestions_node: out is the outcome of llm.ainvoke followed by
\* parse_suggestions, given as the parsed list
generate_suggestions_node(st, out) ==
    IF out.kind = "raise" THEN Returned([st EXCEPT !.suggestions = EmptyList])
    ELSE Returned(LogAppend([st EXCEPT !.suggestions = out.value],
            "Generated " \o ToString(Len(out.value.v)) \o " suggestions for " \o st.city))

\* the keyword arguments of the call of planning_tool.create_itinerary
PlannerArguments(st) ==
    [city |-> st.city, start_date |-> st.start_date, end_date |-> st.end_date,
     interests |-> st.interests, budget |-> st.budget, group_size |-> st.group_size,
     pace |-> st.pace, accommodation |-> st.accommodation, weather |-> st.weather]

CreateItineraryWith(a) ==
    PyDict(create_itinerary(a.city, a.start_date, a.end_date, a.interests, a.budget,
                            a.group_size, a.pace, a.accommodation, a.weather))

\* the calls the requests lead to once get_weather_node has run, and their
\* itineraries, computed once (the planner is a function of its arguments)
KnownPlannerCalls ==
    {PlannerArguments([BasicInitialState(input_data) EXCEPT !.weather = SimulatedWeather]) :
        input_data \in Requests}

KnownItineraries == {<<a, CreateItineraryWith(a)>> : a \in KnownPlannerCalls}

\* what `await planning_tool.create_itinerary(city=state.city, ...)` returns
PlannedItinerary(st) ==
    IF PlannerArguments(st) \in KnownPlannerCalls
    THEN TheOne({known \in KnownItineraries : known[1] = PlannerArguments(st)})[2]
    ELSE CreateItineraryWith(PlannerArguments(st))

\* plan_itinerary_node: out is the outcome of planning_tool.create_itinerary
plan_itinerary_node(st, out) ==
    IF out.kind = "raise" THEN Returned([st EXCEPT !.itinerary = EmptyDict])
    ELSE Returned(LogAppend([st EXCEPT !.itinerary = out.value],
                            "Created itinerary for " \o st.city))

\* generate_packing_list_node: out is the outcome of llm.ainvoke followed by
\* parse_packing_list, given as the parsed dict
generate_packing_list_node(st, out) ==
    IF out.kind = "raise" THEN Returned([st EXCEPT !.packing_list = EmptyDict])
    ELSE Returned(LogAppend([st EXCEPT !.packing_list = out.value],
                            "Generated packing list for " \o st.destination))

basic_finalize_response_node(st) ==
    IF st.messages.type # "list" THEN Raised(st)
    ELSE Returned(LogAppend(st, "Response finalized successfully"))

route_by_task(st) ==
    CASE st.task = "explore_destination" -> "explore"
      [] st.task = "generate_itinerary" -> "itinerary"
      [] st.task = "generate_packing_list" -> "packing"
      [] OTHER -> "explore"

\* the mapping given to add_conditional_edges("analyze_request", route_by_task, ...)
RouteTargets ==
    [chat |-> "process_chat", explore |-> "get_weather", itinerary |-> "get_weather",
     packing |-> "generate_packing_list"]

\* the add_edge calls of create_travel_graph; "END" is the graph's end
BasicEdges ==
    {<<"process_chat", "finalize_response">>,
     <<"get_weather", "get_events">>,
     <<"get_events", "get_attractions">>,
     <<"get_attractions", "generate_suggestions">>,
     <<"generate_suggestions", "finalize_response">>,
     <<"get_weather", "plan_itinerary">>,
     <<"plan_itinerary", "finalize_response">>,
     <<"generate_packing_list", "finalize_response">>,
     <<"finalize_response", "END">>}

\* the envelope TravelPlanningGraph.run builds (generated_at is left out)
BasicEnvelope(st) ==
    CASE st.task = "explore_destination" ->
           [shape |-> "explore", suggestions |-> st.suggestions, weather |-> st.weather,
            events |-> st.events]
      [] st.task = "generate_itinerary" ->
           [shape |-> "itinerary", itinerary |-> st.itinerary, duration |-> st.duration,
            total_cost |-> Get(st.itinerary.v, "total_cost", 0)]
      [] st.task = "generate_packing_list" ->
           [shape |-> "packing", packing_list |-> st.packing_list, weather |-> st.weather,
            total_items |-> Get(st.packing_list.v, "total_items", 0)]
      [] OTHER -> [shape |-> "error", error |-> "Unknown task"]

\* the envelope of the except branch of TravelPlanningGraph.run; where is the
\* node the exception left (str(e) names the failure)
BasicErrorEnvelope(where) == [shape |-> "error", error |-> "exception in " \o where]

----------------------------------------------------------------------------
(* The three graphs as the graph runtime sees them *)

Impls == {"enhanced", "simple", "basic"}

Entry(impl) ==
    CASE impl = "enhanced" -> "analyze_intent"
      [] impl = "simple" -> "process_chat"
      [] impl = "basic" -> "analyze_request"

\* the add_edge calls of create_enhanced_travel_graph
EnhancedEdges ==
    {<<"analyze_intent", "call_tools">>,
     <<"call_tools", "generate_response">>,
     <<"generate_response", "finalize_response">>,
     <<"finalize_response", "END">>}

\* the add_edge calls of create_simple_travel_graph
SimpleEdges ==
    {<<"process_chat", "finalize_response">>, <<"finalize_response", "END">>}

EdgesOf(impl) ==
    CASE impl = "enhanced" -> EnhancedEdges
      [] impl = "simple" -> SimpleEdges
      [] impl = "basic" -> BasicEdges

\* the nodes the runtime schedules after node n returned state st: the target
\* of every edge that leaves n, and for the conditional edge the routed target
Successors(impl, n, st) ==
    ({e[2] : e \in {d \in EdgesOf(impl) : d[1] = n}}
       \cup (IF impl = "basic" /\ n = "analyze_request"
             THEN {RouteTargets[route_by_task(st)]} ELSE {}))
    \ {"END"}

InitialState(impl, input_data) ==
    CASE impl = "enhanced" -> EnhancedInitialState(input_data)
      [] impl = "simple" -> SimpleInitialState(input_data)
      [] impl = "basic" -> BasicInitialState(input_data)

\* what a collaborator or model call can do: return a value or raise
Ret(val) == [kind |-> "return", value |-> val, content |-> ""]

Reply(text) == [kind |-> "return", value |-> EmptyList, content |-> text]

Raise == [kind |-> "raise", value |-> EmptyList, content |-> ""]

NoCall == {[kind |-> "none", value |-> EmptyList, content |-> ""]}

ListResults == {Ret(EmptyList), Ret(PyList(<<"item">>)), Raise}

ModelReplies == {Reply("Here is what I found."), Reply(""), Raise}

\* what the call at a site of call_tools_node can do
SiteOutcomes(i) ==
    CASE CallSites[i] = "weather_current" ->
           {Ret(PyDict([temperature |-> 18, condition |-> "Cloudy"])), Raise}
      [] CallSites[i] = "weather_forecast" ->
           {Ret(PyList(<<"forecast-day">>)), Raise}
      [] OTHER -> ListResults

\* what the collaborator or model a node calls can do
NodeOutcomes(impl, n, st) ==
    CASE n \in {"generate_response"} -> ModelReplies
      [] impl = "simple" /\ n = "process_chat" -> ModelReplies
      [] impl = "basic" /\ n = "process_chat" ->
           {Reply("destination_inquiry"), Reply(" Greeting\n"), Raise}
      [] n \in {"get_events", "get_attractions", "generate_suggestions"} -> ListResults
      [] n = "plan_itinerary" -> {Ret(PlannedItinerary(st)), Raise}
      [] n = "generate_packing_list" ->
           {Ret(PyDict([categories |-> <<"clothing">>, total_items |-> 3])), Raise}
      [] OTHER -> NoCall

\* the nodes that call the text-generation model (chat_llm.ainvoke, llm.ainvoke)
GenerationNodes(impl) ==
    CASE impl = "enhanced" -> {"generate_response"}
      [] impl = "simple" -> {"process_chat"}
      [] impl = "basic" -> {"process_chat", "generate_suggestions", "generate_packing_list"}

\* one node of a graph run to completion on state st with outcome out
\* (call_tools of the enhanced graph is run in steps, see below)
NodeFn(impl, n, st, out) ==
    CASE impl = "enhanced" /\ n = "analyze_intent" -> analyze_intent_node(st)
      [] impl = "enhanced" /\ n = "generate_response" -> generate_response_node(st, out)
      [] impl \in {"enhanced", "simple"} /\ n = "finalize_response" -> finalize_response_node(st)
      [] impl = "simple" /\ n = "process_chat" -> simple_process_chat_node(st, out)
      [] impl = "basic" /\ n = "analyze_request" -> analyze_request_node(st)
      [] impl = "basic" /\ n = "process_chat" -> basic_process_chat_node(st, out)
      [] impl = "basic" /\ n = "get_weather" -> get_weather_node(st)
      [] impl = "basic" /\ n = "get_events" -> get_events_node(st, out)
      [] impl = "basic" /\ n = "get_attractions" -> get_attractions_node(st, out)
      [] impl = "basic" /\ n = "generate_suggestions" -> generate_suggestions_node(st, out)
      [] impl = "basic" /\ n = "plan_itinerary" -> plan_itinerary_node(st, out)
      [] impl = "basic" /\ n = "generate_packing_list" -> generate_packing_list_node(st, out)
      [] impl = "basic" /\ n = "finalize_response" -> basic_finalize_response_node(st)

\* the envelope run() returns when the graph has ended
EnvelopeOf(impl, st) ==
    CASE impl = "enhanced" -> EnhancedEnvelope(st)
      [] impl = "simple" -> SimpleEnvelope(st)
      [] impl = "basic" -> BasicEnvelope(st)

\* the envelope run() returns from its except branch
ExceptEnvelopeOf(impl, input_data, where) ==
    CASE impl = "enhanced" -> EnhancedFallbackEnvelope(input_data)
      [] impl = "simple" -> SimpleFallbackEnvelope(input_data)
      [] impl = "basic" -> BasicErrorEnvelope(where)

----------------------------------------------------------------------------
(* One run of one graph *)

VARIABLES
    phase,       \* "idle", "running" (inside app.ainvoke) or "returned"
    impl,        \* the graph class whose run() was called
    input,       \* input_data
    state,       \* the graph state
    active,      \* the nodes of the current step of the runtime still to run
    nextActive,  \* the nodes scheduled for the next step
    executed,    \* the nodes entered so far, in order
    frame,       \* the frame of call_tools_node
    envelope,    \* what run() returned
    escaped,     \* the node an exception left, "none" when none did
    generation,  \* how the run's last text-generation call ended: "none" made,
                 \* "replied" or "raised"
    results,     \* what the calls the run awaited so far gave, in order
    parked       \* the locals of a second call of run() that waits while this
                 \* one runs; NoRun when there is none

vars ==
    <<phase, impl, input, state, active, nextActive, executed, frame, envelope, escaped,
      generation, results, parked>>

NoRun == [phase |-> "none"]

NoFrame ==
    [tools_needed |-> <<>>, city |-> PyNone, tool_results |-> <<>>, weather |-> NoneObj,
     built |-> TRUE, calls |-> [i \in 1..NumSites |-> "idle"],
     got |-> [i \in 1..NumSites |-> NoneObj], at |-> -1]

Init ==
    /\ phase = "idle"
    /\ impl = "enhanced"
    /\ input = [task |-> "chat"]
    /\ state = <<>>
    /\ active = {}
    /\ nextActive = {}
    /\ executed = <<>>
    /\ frame = NoFrame
    /\ envelope = NoEnvelope
    /\ escaped = "none"
    /\ generation = "none"
    /\ results = <<>>
    /\ parked = NoRun

\* call_tools_node is suspended in an await
Suspended == frame.at \in 1..NumSites

\* the runtime after node n returned st: n leaves the current step, its
\* successors join the next one, and the next step starts when the current
\* one is empty
Schedule(n, st) ==
    LET rest == active \ {n}
        nxt == nextActive \cup Successors(impl, n, st)
    IN  IF rest = {} THEN [active |-> nxt, nextActive |-> {}]
        ELSE [active |-> rest, nextActive |-> nxt]

\* run(): the initial state is built and app.ainvoke starts at the entry node
RunStart ==
    /\ phase = "idle"
    /\ \E im \in Impls, inp \in Requests :
         /\ impl' = im
         /\ input' = inp
         /\ state' = InitialState(im, inp)
         /\ active' = {Entry(im)}
    /\ phase' = "running"
    /\ UNCHANGED <<nextActive, executed, frame, envelope, escaped, generation, results,
                   parked>>

\* node n returned st
NodeReturns(n, st) ==
    /\ state' = st
    /\ active' = Schedule(n, st).active
    /\ nextActive' = Schedule(n, st).nextActive
    /\ UNCHANGED <<phase, envelope, escaped>>

\* an exception left node n: it leaves app.ainvoke and the except branch of
\* run() returns its envelope
NodeRaises(n) ==
    /\ phase' = "returned"
    /\ envelope' = ExceptEnvelopeOf(impl, input, n)
    /\ escaped' = n
    /\ active' = {}
    /\ nextActive' = {}
    /\ UNCHANGED state

\* a node other than call_tools runs
RunNode ==
    /\ phase = "running"
    /\ ~Suspended
    /\ \E n \in active :
         /\ ~(impl = "enhanced" /\ n = "call_tools")
         /\ executed' = Append(executed, n)
         /\ \E out \in NodeOutcomes(impl, n, state) :
              /\ results' = Append(results, out)
              /\ generation' = IF n \notin GenerationNodes(impl) THEN generation
                                ELSE IF out.kind = "raise" THEN "raised" ELSE "replied"
              /\ \E res \in {NodeFn(impl, n, state, out)} :
                    IF res.raised THEN NodeRaises(n) ELSE NodeReturns(n, res.state)
    /\ UNCHANGED <<impl, input, frame, parked>>

\* call_tools_node from its entry to its first await, or to its return
CallToolsEnter ==
    /\ phase = "running"
    /\ impl = "enhanced"
    /\ "call_tools" \in active
    /\ ~Suspended
    /\ executed' = Append(executed, "call_tools")
    /\ \E toolsBuilt \in BOOLEAN :
         LET fr == EnterCallTools(state, toolsBuilt)
         IN  /\ frame' = fr
             /\ results' = Append(results, IF toolsBuilt THEN Ret(EmptyList) ELSE Raise)
             /\ IF fr.at > NumSites
                THEN NodeReturns("call_tools", call_tools_return(state, fr).state)
                ELSE UNCHANGED <<state, active, nextActive, phase, envelope, escaped>>
    /\ UNCHANGED <<impl, input, generation, parked>>

\* the awaited adapter call ends: call_tools_node runs on to its next await,
\* or to its return
CallEnds ==
    /\ phase = "running"
    /\ Suspended
    /\ \E out \in SiteOutcomes(frame.at) :
         LET fr == Resume(frame, out)
         IN  /\ frame' = fr
             /\ results' = Append(results, out)
             /\ IF fr.at > NumSites
                THEN NodeReturns("call_tools", call_tools_return(state, fr).state)
                ELSE UNCHANGED <<state, active, nextActive, phase, envelope, escaped>>
    /\ UNCHANGED <<impl, input, executed, generation, parked>>

\* app.ainvoke returned: run() builds and returns the envelope
RunReturn ==
    /\ phase = "running"
    /\ active = {}
    /\ nextActive = {}
    /\ ~Suspended
    /\ envelope' = EnvelopeOf(impl, state)
    /\ phase' = "returned"
    /\ UNCHANGED <<impl, input, state, active, nextActive, executed, frame, escaped,
                   generation, results, parked>>

Next == RunStart \/ RunNode \/ CallToolsEnter \/ CallEnds \/ RunReturn

Spec == Init /\ [][Next]_vars

\* every awaited call returns or raises and the runtime keeps scheduling
FairSpec == Spec /\ WF_vars(Next)

----------------------------------------------------------------------------
(* Properties *)

EnhancedOrder == <<"analyze_intent", "call_tools", "generate_response", "finalize_response">>

BranchNodes == {"plan_itinerary", "generate_suggestions", "generate_packing_list", "process_chat"}

\* call_tools_node has returned
GatherDone == impl = "enhanced" /\ frame.at = NumSites + 1

\* collaborator tool was called in this run's gather stage
Invoked(tool) == \E i \in 1..NumSites : SiteTool(i) = tool /\ frame.calls[i] # "idle"

HasEntry(tool) == ResultKey(tool) \in DOMAIN state.data.v

\* the sites whose call was awaited and has ended
EndedCalls == {i \in 1..NumSites : ~RaisesAtCall(i) /\ frame.calls[i] \in {"returned", "raised"}}

\* the output sections of the graph.py state that hold something
SectionsProduced ==
    {k \in {"itinerary", "suggestions", "packing_list"} : state[k].v # <<>>}
        \cup (IF state.response # "" THEN {"response"} ELSE {})

\* C1 (as claimed): in every run of the task-routed graph (graph.py) that ends
\* without an exception, exactly one of the branch nodes plan_itinerary,
\* generate_suggestions, generate_packing_list, process_chat has run, and exactly
\* one of the output sections itinerary, suggestions, packing_list, chat reply
\* has been produced.
C1_ExactlyOneBranch ==
    (impl = "basic" /\ phase = "returned" /\ escaped = "none")
        => /\ Cardinality({n \in BranchNodes : n \in Range(executed)}) = 1
           /\ Cardinality(SectionsProduced) = 1

\* C2 (as claimed): every run of the enhanced graph visits analyze_intent,
\* call_tools, generate_response, finalize_response in this order, each once,
\* and ends only after finalize_response.
C2_FixedStageOrder ==
    (impl = "enhanced" /\ phase = "returned") => executed = EnhancedOrder

\* C3: every run of the enhanced or the simple graph that has started
\* eventually returns an envelope, whatever the adapter calls and the
\* generation call do (return or raise).
C3_EventuallyReturns ==
    (phase = "running" /\ impl \in {"enhanced", "simple"})
        ~> (phase = "returned" /\ envelope.shape = "chat")

\* a run of the enhanced graph has returned its envelope although an adapter
\* call raised and the generation call raised
C3_Witness ==
    /\ phase = "returned"
    /\ impl = "enhanced"
    /\ envelope.shape = "chat"
    /\ \E i \in EndedCalls : frame.calls[i] = "raised"
    /\ state.response = FallbackReply
    /\ state.confidence = 5

\* C4: the envelope returned by the enhanced and by the simple graph always
\* carries a non-empty response string.
C4_NonEmptyResponse ==
    (phase = "returned" /\ impl \in {"enhanced", "simple"})
        => (envelope.response # "" /\ envelope.response # PyNone)

\* generation returned empty text and the envelope carries the default reply
\* that finalize substituted
C4_Witness ==
    /\ phase = "returned"
    /\ impl \in {"enhanced", "simple"}
    /\ escaped = "none"
    /\ envelope.response = DefaultReply

\* C5: once the gather stage has returned, every adapter whose call raised has
\* its empty result in the merged results, every adapter whose call returned
\* has exactly the value it returned (for weather: the current weather and the
\* forecast), whatever the other adapters did; and the run then completes all
\* four stages and returns an envelope with these results, no exception
\* reaching the caller.
C5_AdapterFailuresIsolated ==
    (GatherDone /\ frame.built) =>
        /\ \A i \in 1..NumSites :
             frame.calls[i] = "raised" =>
                /\ HasEntry(SiteTool(i))
                /\ state.data.v[ResultKey(SiteTool(i))] = FailureValue(SiteTool(i))
        /\ \A i \in 1..NumSites :
             (frame.calls[i] = "returned" /\ SiteTool(i) # "weather") =>
                /\ HasEntry(SiteTool(i))
                /\ state.data.v[ResultKey(SiteTool(i))] = frame.got[i]
        /\ (frame.calls[2] = "returned" /\ frame.calls[3] = "returned") =>
                /\ HasEntry("weather")
                /\ state.data.v["weather"] = PyDict([current |-> frame.got[2], forecast |-> frame.got[3]])
        /\ phase = "returned" =>
                /\ escaped = "none"
                /\ executed = EnhancedOrder
                /\ envelope.shape = "chat"
                /\ envelope.data = state.data

\* the events adapter raised, the weather adapter succeeded, and the run returned
C5_Witness ==
    /\ phase = "returned"
    /\ GatherDone
    /\ frame.calls[1] = "raised"
    /\ frame.calls[2] = "returned"
    /\ frame.calls[3] = "returned"

\* C6: once the synthesize stage has started, no adapter call of the run is
\* outstanding.
C6_JoinBarrier ==
    "generate_response" \in Range(executed) =>
        \A i \in 1..NumSites : frame.calls[i] # "outstanding"

\* synthesize has started after at least two awaited adapter calls ended
C6_Witness ==
    /\ "generate_response" \in Range(executed)
    /\ Cardinality(EndedCalls) >= 2

\* C7 (as claimed): the calls of the required adapters are issued
\* concurrently: while the call of one adapter is outstanding, there is no
\* other required adapter whose call has not been issued yet.
C7_IssuedConcurrently ==
    ~ \E i, j \in 1..NumSites :
        /\ impl = "enhanced"
        /\ frame.calls[j] = "outstanding"
        /\ SiteTool(i) # SiteTool(j)
        /\ SiteGuard(i, frame)
        /\ frame.calls[i] = "idle"

\* C8 (as claimed): after the gather stage every collaborator named in
\* tools_used has been invoked and has a result entry, for every message,
\* also one in which no city was detected.
C8_AllRequiredInvoked ==
    GatherDone => \A tool \in Range(state.tools_used) : Invoked(tool) /\ HasEntry(tool)

\* C9 (as claimed): in the enhanced graph no exception leaves classify,
\* gather or synthesize; the run goes on through every stage and finalize
\* executes.
C9_StageExceptionsCaught ==
    (impl = "enhanced" /\ phase = "returned") =>
        /\ escaped \notin {"analyze_intent", "call_tools", "generate_response"}
        /\ "finalize_response" \in Range(executed)

\* C10 (as claimed): a run of the enhanced graph or of the task-routed graph
\* returns a top-level failure carrying an error message if and only if an
\* exception escaped the finalize stage.
C10_ErrorIffFinalizeEscaped ==
    (phase = "returned" /\ impl \in {"enhanced", "basic"}) =>
        (envelope.shape = "error" <=> escaped = "finalize_response")


\* the intent the classifier computes for the message of this run
ClassifiedIntent == Classify(Get(input, "message", "")).intent

\* C11: in the enhanced graph, once classify has returned, the intent field of
\* the state keeps the value the classifier set through every later stage, and
\* the returned envelope reports that value.
C11_IntentSetOnce ==
    (impl = "enhanced" /\ escaped = "none" /\ "analyze_intent" \in Range(executed)) =>
        /\ state.intent = ClassifiedIntent
        /\ phase = "returned" => envelope.intent = ClassifiedIntent

\* a run classified as a planning inquiry went through gather, synthesize and
\* finalize and returned
C11_Witness ==
    /\ impl = "enhanced"
    /\ phase = "returned"
    /\ executed = EnhancedOrder
    /\ generation = "replied"
    /\ envelope.intent = "planning_inquiry"

\* C12: when the generation call of the enhanced or of the simple graph raised,
\* the state holds the fixed fallback reply, the fixed fallback suggestions and
\* confidence 0.5, which is lower than the 0.9 of a generation that succeeded;
\* no exception leaves the stage and the run ends after finalize.
C12_GenerationFallback ==
    (impl \in {"enhanced", "simple"} /\ generation # "none") =>
        /\ generation = "raised" =>
              /\ state.response = FallbackReply
              /\ state.suggestions = FallbackSuggestions
              /\ state.confidence = 5
              /\ escaped = "none"
              /\ phase = "returned" =>
                    /\ executed[Len(executed)] = "finalize_response"
                    /\ envelope.response = FallbackReply
                    /\ envelope.confidence = 5
        /\ (generation = "replied" /\ state.message # PyNone) =>
              /\ state.confidence = 9
              /\ state.confidence > 5

\* the generation call of an enhanced run raised and the run has returned
C12_Witness ==
    /\ impl = "enhanced"
    /\ generation = "raised"
    /\ phase = "returned"
    /\ executed = EnhancedOrder


----------------------------------------------------------------------------
(* model_router.py *)

\* the model names ModelRouter.__init__ reads from the environment: the
\* defaults (GEMINI_FLASH_LITE_MODEL defaults to the flash name), and a
\* configuration that names the three tiers differently
DefaultNames ==
    [flash |-> "gemini-1.5-flash", pro |-> "gemini-1.5-pro", flash_lite |-> "gemini-1.5-flash"]

DistinctNames ==
    [flash |-> "gemini-1.5-flash", pro |-> "gemini-1.5-pro", flash_lite |-> "gemini-1.5-flash-8b"]

Configurations == {DefaultNames, DistinctNames}

FlashMaxTokens == 8192

ProMaxTokens == 32768

FlashLiteMaxTokens == 4096

\* temperature 0.7, in tenths
Temperature == 7

ModelConfig(name, max_tokens, is_pro) ==
    [name |-> name, max_tokens |-> max_tokens, temperature |-> Temperature, is_pro |-> is_pro]

\* self.models: a dict display, a later entry replaces an earlier one with the
\* same key
models(names) ==
    LET flash == (names.flash :> ModelConfig(names.flash, FlashMaxTokens, FALSE))
        pro == DictPut(flash, names.pro, ModelConfig(names.pro, ProMaxTokens, TRUE))
    IN  DictPut(pro, names.flash_lite, ModelConfig(names.flash_lite, FlashLiteMaxTokens, FALSE))

\* self.agent_defaults
agent_defaults(names) ==
    [explore |-> names.flash,
     itinerary |-> names.pro,
     packing |-> names.flash,
     tips |-> names.flash,
     events |-> names.flash,
     formatter |-> names.flash_lite,
     pdf |-> names.flash_lite]

CharsPerToken == 4

TokenThreshold == 40000

CitiesThreshold == 2

DateSpanThreshold == 5

ToolChainThreshold == 3

\* estimate_tokens(text); a text is held as its length, the only thing the
\* router reads of it
estimate_tokens(text_len) == text_len \div CharsPerToken

EscalationErrors == <<"context too large", "safety block", "tool schema too complex">>

\* the default values of the keyword parameters of should_escalate_to_pro
DefaultSignals ==
    [prompt_len |-> 0, cities |-> 1, date_span_days |-> 1, tool_chain_length |-> 1,
     has_images |-> FALSE, previous_error |-> PyNone]

\* a faulty variant of should_escalate_to_pro: the thresholds are inclusive
should_escalate_inclusive(agent_type, sig) ==
    IF Truthy(sig.previous_error) /\ AnyIn(EscalationErrors, Lower(sig.previous_error))
    THEN TRUE
    ELSE \/ estimate_tokens(sig.prompt_len) >= TokenThreshold
         \/ sig.cities >= CitiesThreshold
         \/ sig.date_span_days >= DateSpanThreshold
         \/ sig.tool_chain_length >= ToolChainThreshold
         \/ sig.has_images

should_escalate_to_pro(agent_type, sig) ==
    IF Truthy(sig.previous_error) /\ AnyIn(EscalationErrors, Lower(sig.previous_error))
    THEN TRUE
    ELSE IF estimate_tokens(sig.prompt_len) > TokenThreshold THEN TRUE
    ELSE IF sig.cities > CitiesThreshold THEN TRUE
    ELSE IF sig.date_span_days > DateSpanThreshold THEN TRUE
    ELSE IF sig.tool_chain_length > ToolChainThreshold THEN TRUE
    ELSE IF sig.has_images THEN TRUE
    ELSE FALSE

\* the ChatVertexAI built from a model configuration
ChatVertexAI(model_config) ==
    [model_name |-> model_config.name,
     temperature |-> model_config.temperature,
     max_output_tokens |-> model_config.max_tokens]

\* a faulty variant of get_model_for_agent: the role's default is kept when
\* the escalation predicate holds
get_model_for_agent_no_escalation(names, agent_type, sig) ==
    ChatVertexAI(models(names)[
        IF agent_type \in DOMAIN agent_defaults(names)
        THEN agent_defaults(names)[agent_type] ELSE names.flash])

get_model_for_agent(names, agent_type, sig) ==
    LET default_model_name ==
            IF agent_type \in DOMAIN agent_defaults(names)
            THEN agent_defaults(names)[agent_type] ELSE names.flash
        model_name ==
            IF should_escalate_to_pro(agent_type, sig) THEN names.pro ELSE default_model_name
    IN  ChatVertexAI(models(names)[model_name])

----------------------------------------------------------------------------
(* The envelope of an itinerary request *)

\* C28: for a request whose task is generate_itinerary, the graph the service
\* runs (travel_graph, an EnhancedTravelPlanningGraph) returns the envelope of
\* an itinerary: it carries the itinerary, its duration and its total cost.
C28_ItineraryEnvelope ==
    (phase = "returned" /\ impl = "enhanced" /\ input.task = "generate_itinerary") =>
        /\ envelope.shape = "itinerary"
        /\ {"itinerary", "duration", "total_cost"} \subseteq DOMAIN envelope

----------------------------------------------------------------------------
(* The classify stage on a larger set of messages *)

\* messages put together from a phrase (or none) of each of four kinds
EventPhrases == {"", "Any concert ", "What events are happening "}

WeatherPhrases == {"", "if it is Sunny ", "and the forecast "}

OtherPhrases == {"", "near a museum ", "please recommend something ", "to plan "}

CityPhrases == {"", "in Toronto", "around Trois-Rivières", "at BANFF this weekend", "hello"}

ClassifierMessages ==
    {a \o b \o c \o d : a \in EventPhrases, b \in WeatherPhrases,
                          c \in OtherPhrases, d \in CityPhrases} \cup ChatMessages

\* run() has built the initial state of a chat request and entered the graph
ClassifierInit ==
    /\ phase = "running"
    /\ impl = "enhanced"
    /\ input \in {[task |-> "chat", message |-> m, session_id |-> "s1"] : m \in ClassifierMessages}
    /\ state = EnhancedInitialState(input)
    /\ active = {"analyze_intent"}
    /\ nextActive = {}
    /\ executed = <<>>
    /\ frame = NoFrame
    /\ envelope = NoEnvelope
    /\ escaped = "none"
    /\ generation = "none"
    /\ results = <<>>
    /\ parked = NoRun

\* the run up to the return of analyze_intent_node
ClassifierSpec == ClassifierInit /\ [][RunNode]_vars

Classified == impl = "enhanced" /\ escaped = "none" /\ "analyze_intent" \in Range(executed)

\* the categories, by their place in the evaluation order, with a keyword that
\* is a substring of the lower-cased message
Matching(message) == {i \in DOMAIN IntentRules : AnyIn(IntentRules[i][1], Lower(message))}

\* a gazetteer city is a substring of the lower-cased message
CityMentioned(message) ==
    \E i \in DOMAIN canadian_cities : Contains(Lower(message), canadian_cities[i])

\* C13: for every message, the collaborator of each category whose keyword set
\* matches is required (and no other, once a category matches), and the intent
\* is that of the last matching category in the order events, weather,
\* attractions, planning, recommendations.
C13_AllMatchesLastIntent ==
    Classified =>
        LET hit == Matching(state.message)
        IN  hit # {} =>
              /\ Range(state.tools_used) = {IntentRules[i][2] : i \in hit}
              /\ Len(state.tools_used) = Cardinality(hit)
              /\ state.intent = IntentRules[CHOOSE i \in hit : \A j \in hit : j <= i][3]

\* a message matching three categories, the last of them attractions, has been
\* classified
C13_Witness ==
    /\ Classified
    /\ Matching(state.message) = {1, 2, 3}
    /\ state.intent = "attractions_inquiry"
    /\ state.tools_used = <<"events", "weather", "attractions">>

\* C14 (as claimed): the message "What events are happening in Toronto this
\* weekend?" is classified with intent "events_inquiry", events among the
\* required collaborators, and city "Toronto".
C14_EventsScenario ==
    (Classified /\ state.message = "What events are happening in Toronto this weekend?") =>
        /\ state.intent = "events_inquiry"
        /\ "events" \in Range(state.tools_used)
        /\ state.city_detected = "Toronto"

\* C15: when no category matches, a message that mentions a gazetteer city gets
\* the general city inquiry intent with exactly recommendations and
\* attractions required, and a message without one (the empty message too)
\* gets "general_question" with nothing required.
C15_NoCategoryDefaults ==
    (Classified /\ Matching(state.message) = {}) =>
        IF CityMentioned(state.message)
        THEN /\ state.intent = "general_city_inquiry"
             /\ Range(state.tools_used) = {"recommendations", "attractions"}
             /\ Len(state.tools_used) = 2
             /\ state.city_detected # PyNone
        ELSE /\ state.intent = "general_question"
             /\ state.tools_used = <<>>
             /\ state.city_detected = PyNone

\* a message with a city and no category keyword has been classified
C15_Witness ==
    /\ Classified
    /\ state.message = "around Trois-Rivières"
    /\ state.city_detected = "Trois-Rivières"
    /\ state.intent = "general_city_inquiry"


----------------------------------------------------------------------------
(* The model router called on its own *)

AgentTypes ==
    {"explore", "itinerary", "packing", "tips", "events", "formatter", "pdf", "concierge"}

MaxCities == 3

MaxDateSpan == 6

MaxToolChain == 4

\* len(prompt_text): empty, the two lengths around the token threshold, and the
\* 200000 characters of test_model_router.py
PromptLengths ==
    {0, CharsPerToken * TokenThreshold + 3, CharsPerToken * TokenThreshold + 4, 200000}

PreviousErrors == {PyNone, "", "timeout", "Context Too Large for this model", "safety block"}

SignalSets ==
    [prompt_len : PromptLengths,
     cities : 1..MaxCities,
     date_span_days : {1} \cup (DateSpanThreshold..MaxDateSpan),
     tool_chain_length : {1} \cup (ToolChainThreshold..MaxToolChain),
     has_images : BOOLEAN,
     previous_error : PreviousErrors]

\* a ModelRouter has been constructed under one of the configurations; input
\* holds the arguments of the call about to be made
RouterInit ==
    /\ phase = "idle"
    /\ impl = "router"
    /\ input \in [names : Configurations, agent_type : AgentTypes, signals : SignalSets]
    /\ state = <<>>
    /\ active = {}
    /\ nextActive = {}
    /\ executed = <<>>
    /\ frame = NoFrame
    /\ envelope = NoEnvelope
    /\ escaped = "none"
    /\ generation = "none"
    /\ results = <<>>
    /\ parked = NoRun

\* should_escalate_to_pro and get_model_for_agent are called with the
\* arguments; state holds what they return
RouterCall ==
    /\ phase = "idle"
    /\ impl = "router"
    /\ state' = [escalate |-> should_escalate_to_pro(input.agent_type, input.signals),
                 model |-> get_model_for_agent(input.names, input.agent_type, input.signals)]
    /\ phase' = "returned"
    /\ UNCHANGED <<impl, input, active, nextActive, executed, frame, envelope, escaped,
                   generation, results, parked>>

RouterSpec == RouterInit /\ [][RouterCall]_vars

Routed == impl = "router" /\ phase = "returned"

\* C16: should_escalate_to_pro returns true exactly when the estimated token
\* count len(prompt) // 4 exceeds 40000, or cities > 2, or date_span_days > 5,
\* or tool_chain_length > 3, or has_images, or previous_error contains, in any
\* letter case, one of the three escalation phrases; so it is false at 40000
\* tokens, 2 cities, 5 days and 3 tools with no other signal; and the result is
\* the same for every agent role.
C16_EscalationPredicate ==
    Routed =>
        LET s == input.signals
        IN  /\ state.escalate <=>
                  \/ s.prompt_len \div 4 > 40000
                  \/ s.cities > 2
                  \/ s.date_span_days > 5
                  \/ s.tool_chain_length > 3
                  \/ s.has_images
                  \/ /\ s.previous_error # PyNone
                     /\ \E phrase \in {"context too large", "safety block",
                                        "tool schema too complex"} :
                           Contains(Lower(s.previous_error), phrase)
            /\ \A a \in AgentTypes : should_escalate_to_pro(a, s) = state.escalate

\* every signal is at its boundary value, the previous error is not an
\* escalation phrase, and the predicate returned false
C16_Witness ==
    /\ Routed
    /\ input.signals = [prompt_len |-> 160003, cities |-> 2, date_span_days |-> 5,
                        tool_chain_length |-> 3, has_images |-> FALSE,
                        previous_error |-> "timeout"]
    /\ state.escalate = FALSE

\* C17: whenever the escalation predicate holds, get_model_for_agent returns
\* the Pro profile for every agent role, in the table or not.
C17_EscalationSelectsPro ==
    (Routed /\ state.escalate) =>
        state.model = [model_name |-> input.names.pro, temperature |-> 7,
                       max_output_tokens |-> 32768]

\* the router was called for a role outside the table with cities = 3 as the
\* only signal and returned the Pro profile
C17_Witness ==
    /\ Routed
    /\ input.agent_type = "concierge"
    /\ input.signals = [DefaultSignals EXCEPT !.cities = 3]
    /\ state.model.model_name = input.names.pro

\* C18 (as claimed): when no escalation signal holds, get_model_for_agent
\* returns the default profile of the role: flash (8192 output tokens) for
\* explore, packing, tips and events, Pro for itinerary, flash-lite (4096) for
\* formatter and pdf, and flash for a role that is not in the table.
C18_RoleDefaults ==
    (Routed /\ ~state.escalate) =>
        state.model =
            CASE input.agent_type = "itinerary" ->
                   [model_name |-> input.names.pro, temperature |-> 7,
                    max_output_tokens |-> 32768]
              [] input.agent_type \in {"formatter", "pdf"} ->
                   [model_name |-> input.names.flash_lite, temperature |-> 7,
                    max_output_tokens |-> 4096]
              [] OTHER ->
                   [model_name |-> input.names.flash, temperature |-> 7,
                    max_output_tokens |-> 8192]


\* the tier get_model_for_agent resolves a call to: Pro when the escalation
\* predicate holds, else the tier of the role's default
ResolvedTier ==
    IF state.escalate \/ input.agent_type = "itinerary" THEN "pro"
    ELSE IF input.agent_type \in {"formatter", "pdf"} THEN "flash_lite"
    ELSE "flash"

\* C38: the profile the router returns carries the output-size limit of its
\* own tier, for every configuration of model names, the default one included:
\* 8192 for the flash tier, 4096 for the flash-lite tier, 32768 for Pro.
C38_LimitOfOwnTier ==
    Routed =>
        state.model.max_output_tokens =
            CASE ResolvedTier = "pro" -> 32768
              [] ResolvedTier = "flash_lite" -> 4096
              [] ResolvedTier = "flash" -> 8192

----------------------------------------------------------------------------
(* The planner called on its own *)

MaxTripDays == 3

MaxGroupSize == 2

\* ItineraryRequest.group_size is an int: a request can carry any
GroupSizes == -1..MaxGroupSize

StartDates == {"2024-02-28", "2023-12-31"}

\* the end dates of the trips of 1..MaxTripDays days from start_date, the day
\* before start_date, and a string that is no date
EndDates(start_date) ==
    {add_days_to_date(start_date, k) : k \in -1..(MaxTripDays - 1)} \cup {"next week"}

Budgets == {-100, 0, 2500, 10000}

Paces == {"Relaxed", "moderate", "INTENSE", "leisurely"}

Interests == {<<>>, <<"outdoor">>, <<"Food", "cultural">>, <<"nightlife">>}

Weathers ==
    {EmptyDict,
     PyDict([condition |-> "Light Rain", temperature |-> 12]),
     PyDict([condition |-> "Sunny", temperature |-> 22])}

PlannerCalls ==
    {[city |-> "Toronto", start_date |-> s, end_date |-> e, interests |-> i, budget |-> b,
      group_size |-> g, pace |-> p, accommodation |-> "mid-range", weather |-> w] :
        s \in StartDates, e \in UNION {EndDates(d) : d \in StartDates}, i \in Interests,
        b \in Budgets, g \in GroupSizes, p \in Paces, w \in Weathers}

\* a PlanningTool has been constructed; input holds the arguments of the call
\* of create_itinerary about to be made
PlannerInit ==
    /\ phase = "idle"
    /\ impl = "planner"
    /\ input \in {c \in PlannerCalls : c.end_date \in EndDates(c.start_date)}
    /\ state = <<>>
    /\ active = {}
    /\ nextActive = {}
    /\ executed = <<>>
    /\ frame = NoFrame
    /\ envelope = NoEnvelope
    /\ escaped = "none"
    /\ generation = "none"
    /\ results = <<>>
    /\ parked = NoRun

\* create_itinerary is called with the arguments; state holds the itinerary
PlannerCall ==
    /\ phase = "idle"
    /\ impl = "planner"
    /\ state' = create_itinerary(input.city, input.start_date, input.end_date,
                                 input.interests, input.budget, input.group_size,
                                 input.pace, input.accommodation, input.weather)
    /\ phase' = "returned"
    /\ UNCHANGED <<impl, input, active, nextActive, executed, frame, envelope, escaped,
                   generation, results, parked>>

PlannerSpec == PlannerInit /\ [][PlannerCall]_vars

Planned == impl = "planner" /\ phase = "returned"

\* the number of calendar days from start_date to end_date, both counted
CalendarDays(start_date, end_date) == ParseDate(end_date).day - ParseDate(start_date).day + 1

ValidRange(start_date, end_date) ==
    /\ ParseDate(start_date).ok
    /\ ParseDate(end_date).ok
    /\ CalendarDays(start_date, end_date) >= 1

\* C19: for a trip from start_date to end_date spanning N >= 1 calendar days,
\* both counted, create_itinerary returns exactly N Day Plans numbered 1..N in
\* order, also when the candidate pool is empty or no candidate passes the
\* filters (the Day Plan is there, with no activities).
C19_OneDayPlanPerDay ==
    (Planned /\ ValidRange(input.start_date, input.end_date)) =>
        LET N == CalendarDays(input.start_date, input.end_date)
        IN  /\ DOMAIN state.days = 1..N
            /\ \A i \in 1..N :
                  /\ state.days[i].day = i
                  /\ DOMAIN state.days[i].activities = 1..Len(state.days[i].activities)

\* a trip of three days over the leap day, with a candidate pool that holds
\* only the park and rain that rules it out: three Day Plans without activities
C19_Witness ==
    /\ Planned
    /\ input.start_date = "2024-02-28"
    /\ input.end_date = "2024-03-01"
    /\ get_available_activities(input.city, input.interests, input.budget) # <<>>
    /\ Len(state.days) = 3
    /\ \A i \in 1..3 : state.days[i].activities = <<>>

RECURSIVE SumOfDays(_, _)
\* the sum of the total_cost of the first n Day Plans
SumOfDays(days, n) == IF n = 0 THEN 0 ELSE SumOfDays(days, n - 1) + days[n].total_cost

\* C20: the total_cost of every itinerary create_itinerary returns is the sum
\* of the total_cost of its Day Plans.
C20_TripTotalIsSumOfDays ==
    Planned => state.total_cost = SumOfDays(state.days, Len(state.days))

\* an itinerary of two days or more whose Day Plans have activities, meals and
\* a paid transport leg
C20_Witness ==
    /\ Planned
    /\ Len(state.days) >= 2
    /\ state.total_cost > 0
    /\ \E k \in DOMAIN state.days[1].transport : state.days[1].transport[k].cost > 0


----------------------------------------------------------------------------
(* The planning of one day called on its own, on pools of candidates *)

\* candidates a pool can hold: the sample activities, candidates that last
\* long, one rated as the park is, and one that carries no duration
Catalog ==
    SampleActivities \o
    << [name |-> "Ridge Hike", type |-> "trail", duration |-> 480, cost |-> 1000,
        location |-> "Foothills", rating |-> 48, category |-> "outdoor"],
       [name |-> "Art Gallery", type |-> "gallery", duration |-> 60, cost |-> 1500,
        location |-> "Downtown", rating |-> 43, category |-> "cultural"],
       [name |-> "Evening Show", type |-> "theatre", duration |-> 180, cost |-> 6000,
        location |-> "Theatre District", rating |-> 47, category |-> "entertainment"],
       [name |-> "Harbour Cruise", type |-> "cruise", duration |-> 240, cost |-> 3000,
        location |-> "Harbour", rating |-> 44, category |-> "outdoor"],
       [name |-> "Farmers Market", type |-> "market", duration |-> 45, cost |-> 500,
        location |-> "Downtown", rating |-> 39, category |-> "food"],
       [name |-> "Old Town Tour", type |-> "tour", duration |-> 300, cost |-> 2000,
        location |-> "Old Town", rating |-> 46, category |-> "cultural"],
       [name |-> "Pop-up Stall", type |-> "stall", cost |-> 0,
        location |-> "Downtown", rating |-> 41, category |-> "food"] >>

MaxPool == 9

\* the n candidates of the catalog that follow its first r
PoolAt(r, n) == [i \in 1..n |-> Catalog[((r + i - 1) % Len(Catalog)) + 1]]

Pools == {PoolAt(r, n) : r \in 0..(Len(Catalog) - 1), n \in 0..MaxPool}

DayBudgets == {-100, 0, 2500, 10000, 100000}

DayWeathers ==
    Weathers \cup
    {PyDict([condition |-> "Snow Showers", temperature |-> -2]),
     PyDict([condition |-> "Sunny", temperature |-> 36]),
     PyDict([condition |-> "Clear", temperature |-> 4]),
     PyDict([condition |-> "Overcast"])}

DayCalls ==
    {[city |-> "Toronto", day |-> 1, date |-> "2024-07-01", activities |-> a, budget |-> b,
      group_size |-> g, pace |-> p, weather |-> w] :
        a \in Pools, b \in DayBudgets, g \in 1..MaxGroupSize, p \in Paces, w \in DayWeathers}

\* a PlanningTool has been constructed; input holds the arguments of the call
\* of _plan_day about to be made
DayInit ==
    /\ phase = "idle"
    /\ impl = "day"
    /\ input \in DayCalls
    /\ state = <<>>
    /\ active = {}
    /\ nextActive = {}
    /\ executed = <<>>
    /\ frame = NoFrame
    /\ envelope = NoEnvelope
    /\ escaped = "none"
    /\ generation = "none"
    /\ results = <<>>
    /\ parked = NoRun

\* _plan_day is called with the arguments; state holds the Day Plan
DayCall ==
    /\ phase = "idle"
    /\ impl = "day"
    /\ state' = plan_day(input.city, input.day, input.date, input.activities, input.budget,
                         input.group_size, input.pace, input.weather)
    /\ phase' = "returned"
    /\ UNCHANGED <<impl, input, active, nextActive, executed, frame, envelope, escaped,
                   generation, results, parked>>

DaySpec == DayInit /\ [][DayCall]_vars

DayPlanned == impl = "day" /\ phase = "returned"


RECURSIVE CostsUpTo(_, _)
\* the sum of the cost of the first n entries of xs
CostsUpTo(xs, n) == IF n = 0 THEN 0 ELSE CostsUpTo(xs, n - 1) + xs[n].cost

\* the cost of all entries of xs
Costs(xs) == CostsUpTo(xs, Len(xs))

\* C21: the total_cost of every Day Plan is the sum of the costs of its
\* activities, plus the sum of the costs of its meals, plus the sum of the costs
\* of its transport legs times the group size.
C21_DayCostAccounting ==
    DayPlanned =>
        state.total_cost =
            Costs(state.activities) + Costs(state.meals)
                + Costs(state.transport) * input.group_size

\* a Day Plan for two travellers with a paid transport leg
C21_Witness ==
    /\ DayPlanned
    /\ input.group_size = 2
    /\ Costs(state.activities) > 0
    /\ Costs(state.transport) > 0
    /\ Len(state.meals) = 3

\* the cap the pace sets on the activities of a day
PaceCap(pace) ==
    IF Lower(pace) = "relaxed" THEN 3
    ELSE IF Lower(pace) = "moderate" THEN 5
    ELSE IF Lower(pace) = "intense" THEN 8
    ELSE 5

\* C22: a Day Plan holds at most 3 activities when the pace is relaxed, 5 when
\* moderate, 8 when intense (whatever the letter case of the pace), and 5 for
\* any other pace.
C22_PaceCaps == DayPlanned => Len(state.activities) <= PaceCap(input.pace)

\* nine candidates that all fit and an intense pace written in capitals: eight
\* are scheduled
C22_Witness ==
    /\ DayPlanned
    /\ input.pace = "INTENSE"
    /\ Len(input.activities) = 9
    /\ Len(state.activities) = 8

\* the weather rules outdoor activities out
BadWeather(weather) ==
    /\ weather.v # <<>>
    /\ \/ Contains(Lower(Get(weather.v, "condition", "")), "rain")
       \/ Contains(Lower(Get(weather.v, "condition", "")), "snow")
       \/ Get(weather.v, "temperature", 20) < 5
       \/ Get(weather.v, "temperature", 20) > 35

\* the candidates of the pool that are not outdoor ones
Indoor(activities) ==
    Filter(activities, [i \in DOMAIN activities |-> activities[i].category # "outdoor"], 1)

\* the activities of the Day Plan of the call c made on the pool, in no weather
InNoWeather(c, pool) ==
    plan_day(c.city, c.day, c.date, pool, c.budget, c.group_size, c.pace, EmptyDict).activities

\* C23: a Day Plan whose weather has rain or snow in its condition, whatever
\* the letter case, or a temperature under 5 or over 35, holds no outdoor
\* activity; the weather rejects no other candidate: the Day Plan holds the
\* activities it would hold in no weather, on the pool without its outdoor
\* candidates when the weather is such, on the whole pool when it is not.
C23_WeatherRulesOutOutdoorOnly ==
    DayPlanned =>
        IF BadWeather(input.weather)
        THEN /\ \A i \in DOMAIN state.activities : state.activities[i].category # "outdoor"
             /\ state.activities = InNoWeather(input, Indoor(input.activities))
        ELSE state.activities = InNoWeather(input, input.activities)

\* a sunny day of 36 degrees, a pool with an outdoor candidate that fits the
\* budget, and a Day Plan with two activities or more
C23_Witness ==
    /\ DayPlanned
    /\ Get(input.weather.v, "temperature", 20) > 35
    /\ \E i \in DOMAIN input.activities :
          /\ input.activities[i].category = "outdoor"
          /\ input.activities[i].cost <= input.budget
    /\ Len(state.activities) >= 2

\* C24: when the budget of the day is not negative, every activity accepted
\* for the day cost at most what the activities accepted before it left of the
\* budget, so the activities of the day never cost more than the budget.
C24_WithinDailyBudget ==
    (DayPlanned /\ input.budget >= 0) =>
        /\ \A k \in DOMAIN state.activities :
              state.activities[k].cost <= input.budget - CostsUpTo(state.activities, k - 1)
        /\ Costs(state.activities) <= input.budget

\* a day whose activities use the budget up, with a candidate that alone would
\* have fitted the budget left out
C24_Witness ==
    /\ DayPlanned
    /\ input.budget > 0
    /\ Costs(state.activities) = input.budget
    /\ Len(state.activities) >= 2
    /\ \E i \in DOMAIN input.activities :
          /\ ~Lacks(input.activities[i], "duration")
          /\ input.activities[i].cost > 0
          /\ input.activities[i].cost <= input.budget
          /\ \A k \in DOMAIN state.activities :
                state.activities[k].name # input.activities[i].name

\* C25: when the budget of the trip is zero or less, every Day Plan has no
\* activity, three meals, and a total_cost that is the cost of its meals.
C25_NoBudgetMealsOnly ==
    (Planned /\ ValidRange(input.start_date, input.end_date) /\ input.budget <= 0) =>
        \A i \in DOMAIN state.days :
            /\ state.days[i].activities = <<>>
            /\ Len(state.days[i].meals) = 3
            /\ state.days[i].total_cost = Costs(state.days[i].meals)

\* the minutes after midnight of a time written HH:MM
MinutesOf(hm) == ParseInt(SubSeq(hm, 1, 2)) * 60 + ParseInt(SubSeq(hm, 4, 5))

\* C26: in every Day Plan no activity starts later than it ends, as the times
\* are written, and the time windows of two activities do not overlap.
C26_WindowsDisjoint ==
    DayPlanned =>
        /\ \A i \in DOMAIN state.activities :
              MinutesOf(state.activities[i].start_time) <= MinutesOf(state.activities[i].end_time)
        /\ \A i, j \in DOMAIN state.activities :
              i < j =>
                \/ MinutesOf(state.activities[i].end_time)
                      <= MinutesOf(state.activities[j].start_time)
                \/ MinutesOf(state.activities[j].end_time)
                      <= MinutesOf(state.activities[i].start_time)

\* C27: every Day Plan has three meals: breakfast at 08:00, lunch at 12:30 and
\* dinner at 19:00, costing 15, 25 and 35 a person times the group size, also
\* when the selection or the time-slotting of the activities of the day failed.
C27_ThreeMealsAlways ==
    DayPlanned =>
        /\ Len(state.meals) = 3
        /\ \A i \in 1..3 :
              /\ state.meals[i].type = <<"breakfast", "lunch", "dinner">>[i]
              /\ state.meals[i].time = <<"08:00", "12:30", "19:00">>[i]
              /\ state.meals[i].cost = <<1500, 2500, 3500>>[i] * input.group_size

\* C30: no Day Plan and no trip has a negative total_cost.
C30_NoNegativeTotals ==
    Planned =>
        /\ state.total_cost >= 0
        /\ \A i \in DOMAIN state.days : state.days[i].total_cost >= 0


----------------------------------------------------------------------------
(* Two calls of run() on one event loop *)

\* a faulty variant of RunLocals: the graph state is an object the calls share
RunLocalsSharedState ==
    {"phase", "input", "active", "nextActive", "executed", "frame", "envelope", "escaped",
     "generation", "results"}

\* what a call of EnhancedTravelPlanningGraph.run owns: input_data and the
\* state dict are locals of run(), the frame is the locals of call_tools_node
\* (the tools it builds among them), the rest is the position of the call in
\* the graph runtime and what it returned
RunLocals ==
    {"phase", "input", "state", "active", "nextActive", "executed", "frame", "envelope",
     "escaped", "generation", "results"}

\* the call of run() that has the event loop
Focused ==
    [phase |-> phase, input |-> input, state |-> state, active |-> active,
     nextActive |-> nextActive, executed |-> executed, frame |-> frame,
     envelope |-> envelope, escaped |-> escaped, generation |-> generation,
     results |-> results]

\* what the call that gets the event loop finds under name: its own when the
\* name is a local of the call, what the other call left there when not
Found(name) == IF name \in RunLocals THEN parked[name] ELSE Focused[name]

ConcurrentMessages == {"weather and events in toronto", "Tell me about Vancouver"}

\* a call of run() that has built its state and is about to enter the graph
Started(input_data) ==
    [phase |-> "running", input |-> input_data,
     state |-> InitialState("enhanced", input_data), active |-> {Entry("enhanced")},
     nextActive |-> {}, executed |-> <<>>, frame |-> NoFrame, envelope |-> NoEnvelope,
     escaped |-> "none", generation |-> "none", results |-> <<>>]

\* the service has taken two chat requests: both calls of travel_graph.run
\* have built their state
ConcurrentInit ==
    /\ impl = "enhanced"
    /\ \E m1 \in ConcurrentMessages, m2 \in {"Tell me about Vancouver"} :
         /\ \E first \in {Started([task |-> "chat", message |-> m1, session_id |-> "s1"])} :
              /\ phase = first.phase
              /\ input = first.input
              /\ state = first.state
              /\ active = first.active
              /\ nextActive = first.nextActive
              /\ executed = first.executed
              /\ frame = first.frame
              /\ envelope = first.envelope
              /\ escaped = first.escaped
              /\ generation = first.generation
              /\ results = first.results
         /\ parked = Started([task |-> "chat", message |-> m2, session_id |-> "s2"])

\* the event loop goes from the call that has it to the one that waits
Switch ==
    /\ parked # NoRun
    /\ parked.phase = "running"
    /\ phase' = Found("phase")
    /\ input' = Found("input")
    /\ state' = Found("state")
    /\ active' = Found("active")
    /\ nextActive' = Found("nextActive")
    /\ executed' = Found("executed")
    /\ frame' = Found("frame")
    /\ envelope' = Found("envelope")
    /\ escaped' = Found("escaped")
    /\ generation' = Found("generation")
    /\ results' = Found("results")
    /\ parked' = Focused
    /\ UNCHANGED impl

ConcurrentNext == RunNode \/ CallToolsEnter \/ CallEnds \/ RunReturn \/ Switch

ConcurrentSpec == ConcurrentInit /\ [][ConcurrentNext]_vars

RECURSIVE ResumeAll(_, _)
\* call_tools_node from the frame fr to its return, its awaited calls giving
\* the results rs in turn: the last frame and the results left
ResumeAll(fr, rs) ==
    IF fr.at > NumSites THEN [frame |-> fr, rest |-> rs]
    ELSE ResumeAll(Resume(fr, Head(rs)), Tail(rs))

RECURSIVE RunAlone(_, _, _, _)
\* the envelope of a call of run() that runs alone from node n on state st,
\* its awaited calls giving the results rs in turn
RunAlone(input_data, st, n, rs) ==
    LET step ==
            IF n = "call_tools"
            THEN LET done == ResumeAll(EnterCallTools(st, Head(rs).kind = "return"), Tail(rs))
                 IN  [raised |-> FALSE, state |-> call_tools_return(st, done.frame).state,
                      rest |-> done.rest]
            ELSE LET res == NodeFn("enhanced", n, st, Head(rs))
                 IN  [raised |-> res.raised, state |-> res.state, rest |-> Tail(rs)]
        next == Successors("enhanced", n, step.state)
    IN  IF step.raised THEN ExceptEnvelopeOf("enhanced", input_data, n)
        ELSE IF next = {} THEN EnvelopeOf("enhanced", step.state)
        ELSE RunAlone(input_data, step.state, TheOne(next), step.rest)

\* the envelope run(input_data) returns when it runs alone and its awaited
\* calls give the results rs
AloneEnvelope(input_data, rs) ==
    RunAlone(input_data, InitialState("enhanced", input_data), Entry("enhanced"), rs)

\* C29: with two calls of run() in flight, whatever the order their stages
\* take turns in, the graph state each call works on is the one built from its
\* own request, and the envelope each call returns is the one it returns when
\* it runs alone and its adapter and generation calls give the same results.
C29_RunsIsolated ==
    parked # NoRun =>
        \A r \in {Focused, parked} :
            /\ r.state.message = r.input.message
            /\ r.state.session_id = r.input.session_id
            /\ r.phase = "returned" => r.envelope = AloneEnvelope(r.input, r.results)

\* a call that returned its envelope while the other call, for another
\* message, waits in an adapter call of its gather stage
C29_Witness ==
    /\ parked # NoRun
    /\ phase = "returned"
    /\ envelope.city_detected = "Toronto"
    /\ parked.phase = "running"
    /\ parked.frame.at \in 1..NumSites
    /\ parked.input.message = "Tell me about Vancouver"


----------------------------------------------------------------------------
(* The order, the times and the transport legs of a Day Plan *)

\* the place in the pool of the call of the candidate named name
PoolIndex(name) == CHOOSE i \in DOMAIN input.activities : input.activities[i].name = name

\* the candidate at place i of the pool is considered before the one at place j
RankedBefore(i, j) ==
    \/ Get(input.activities[i], "rating", 0) > Get(input.activities[j], "rating", 0)
    \/ /\ Get(input.activities[i], "rating", 0) = Get(input.activities[j], "rating", 0)
       /\ i < j

\* the places in the pool of the activities of the Day Plan
Accepted == {PoolIndex(state.activities[k].name) : k \in DOMAIN state.activities}

\* the candidate at place i fails the budget check or the weather check at its
\* turn, after the accepted candidates considered before it
FailsAtItsTurn(i) ==
    LET spent == {j \in Accepted : RankedBefore(j, i)}
        left == input.budget - CostsUpTo(state.activities, Cardinality(spent))
    IN  \/ input.activities[i].cost > left
        \/ input.activities[i].category = "outdoor" /\ BadWeather(input.weather)

\* the Day Plan is not the one of the except branch of _plan_day
DayPlannedWell == DayPlanned /\ state.meals # <<>>

\* C31: the activities of a Day Plan are in the order the candidates are
\* considered in: by rating, highest first, equally rated ones in the order of
\* the pool; a candidate that fails the budget or the weather check is passed
\* over and the candidates after it are considered still: a candidate left out
\* while the day was not full, or before an accepted one, failed a check.
C31_RatingOrderStable ==
    DayPlannedWell =>
        /\ \A k \in 1..(Len(state.activities) - 1) :
              RankedBefore(PoolIndex(state.activities[k].name),
                           PoolIndex(state.activities[k + 1].name))
        /\ \A i \in DOMAIN input.activities \ Accepted :
              (\/ Len(state.activities) < PaceCap(input.pace)
               \/ \E j \in Accepted : RankedBefore(i, j))
                  => FailsAtItsTurn(i)

\* a day with two equally rated activities, and a candidate passed over for
\* its cost between two accepted ones
C31_Witness ==
    /\ DayPlannedWell
    /\ \E k \in 1..(Len(state.activities) - 1) :
          state.activities[k].rating = state.activities[k + 1].rating
    /\ \E i \in DOMAIN input.activities \ Accepted :
          /\ \E j \in Accepted : RankedBefore(i, j)
          /\ \E j \in Accepted : RankedBefore(j, i)
          /\ input.activities[i].category # "outdoor"

\* the minutes from the time written a to the time written b, on the clock
ClockFrom(a, b) == (MinutesOf(b) - MinutesOf(a)) % 1440

\* C32: in every Day Plan the first activity starts at 09:00, every activity
\* ends its duration after it starts, and every activity after the first
\* starts 60 minutes after the one before it ends (times taken on the clock).
C32_TimeSlots ==
    DayPlanned =>
        /\ state.activities # <<>> => state.activities[1].start_time = "09:00"
        /\ \A k \in DOMAIN state.activities :
              /\ state.activities[k].duration = input.activities[PoolIndex(state.activities[k].name)].duration
              /\ ClockFrom(state.activities[k].start_time, state.activities[k].end_time)
                    = state.activities[k].duration % 1440
        /\ \A k \in 1..(Len(state.activities) - 1) :
              ClockFrom(state.activities[k].end_time, state.activities[k + 1].start_time) = 60

\* a Day Plan of three activities or more
C32_Witness ==
    /\ DayPlanned
    /\ Len(state.activities) >= 3
    /\ state.activities[3].start_time # "09:00"

\* C33: a Day Plan of n activities has max(0, n - 1) transport legs; leg i
\* goes from the location of activity i to that of activity i + 1, from the end
\* of the one to the start of the other; it is a walk that costs nothing when
\* the two locations are the same string, public transit at 3.5 when not.
C33_TransportLegs ==
    DayPlanned =>
        /\ Len(state.transport)
             = (IF Len(state.activities) = 0 THEN 0 ELSE Len(state.activities) - 1)
        /\ \A i \in DOMAIN state.transport :
              LET leg == state.transport[i]
                  a == state.activities[i]
                  b == state.activities[i + 1]
              IN  /\ leg.from = a.location
                  /\ leg.to = b.location
                  /\ leg.start_time = a.end_time
                  /\ leg.end_time = b.start_time
                  /\ leg.type = IF a.location = b.location THEN "walking" ELSE "public_transit"
                  /\ leg.cost = IF a.location = b.location THEN 0 ELSE 350

\* a Day Plan with a walk and a public-transit leg
C33_Witness ==
    /\ DayPlanned
    /\ \E i \in DOMAIN state.transport : state.transport[i].type = "walking"
    /\ \E i \in DOMAIN state.transport : state.transport[i].type = "public_transit"


\* the Day Plan of day d of the call, planned on its own on the pool of the call
OnItsOwn(d) ==
    plan_day(input.city, d, add_days_to_date(input.start_date, d - 1),
             get_available_activities(input.city, input.interests, input.budget),
             input.budget, input.group_size, input.pace, input.weather)

\* C34: the plan of a day depends on the pool, the parameters of the trip and
\* the weather only, not on the days before it, and planning leaves the pool
\* as it was: every Day Plan of an itinerary is the one that day gets when it is
\* planned on its own on the whole pool, and the days of a trip, which have the
\* same weather, have the same activities, meals, transport and total_cost.
C34_DaysIndependent ==
    Planned =>
        \A d \in DOMAIN state.days :
            /\ state.days[d] = OnItsOwn(d)
            /\ \A e \in DOMAIN state.days :
                  /\ state.days[d].activities = state.days[e].activities
                  /\ state.days[d].meals = state.days[e].meals
                  /\ state.days[d].transport = state.days[e].transport
                  /\ state.days[d].total_cost = state.days[e].total_cost

\* a trip of three days whose first day has activities: they are on the third
\* day too
C34_Witness ==
    /\ Planned
    /\ Len(state.days) = 3
    /\ state.days[1].activities # <<>>
    /\ state.days[3].activities = state.days[1].activities


----------------------------------------------------------------------------
(* The synthesize and gather stages of the enhanced graph *)

\* the model generate_response_node obtains:
\* model_router.get_model_for_agent("explore", prompt_text=message); the
\* router is configured with the model names names
synthesize_model(names, st) ==
    get_model_for_agent(names, "explore", [DefaultSignals EXCEPT !.prompt_len = Len(st.message)])

\* C35: in a run whose gather stage had more than 3 required collaborators,
\* the model the synthesize stage obtains is the Pro one.
C35_LongToolChainGetsPro ==
    (impl = "enhanced" /\ generation = "replied" /\ Len(state.tools_used) > 3) =>
        \A names \in Configurations : synthesize_model(names, state).model_name = names.pro

\* C36: after the gather stage every key of data is the name of a collaborator
\* in tools_used.
C36_KeysAreCollaboratorNames ==
    GatherDone => DOMAIN state.data.v \subseteq Range(state.tools_used)

----------------------------------------------------------------------------
(* The duration the task-routed graph reports for an itinerary *)

\* C37: in the itinerary envelope TravelPlanningGraph.run returns for valid
\* start and end dates, the reported duration equals the number of Day Plans
\* of the returned itinerary, and the itinerary's own duration field.
C37_DurationIsNumberOfDays ==
    (impl = "basic" /\ phase = "returned" /\ envelope.shape = "itinerary"
        /\ envelope.itinerary # EmptyDict
        /\ ParseDate(input.start_date).ok /\ ParseDate(input.end_date).ok) =>
            /\ envelope.duration = Len(envelope.itinerary.v.days)
            /\ envelope.duration = envelope.itinerary.v.duration

----------------------------------------------------------------------------
(* tools/recommend.py *)

RecommendationCap == 20

Recommendation(name, type, category) == [name |-> name, type |-> type, category |-> category]

\* _get_backend_recommendations: backend is the outcome of the GET of
\* /api/v1/places/suggestions, the titles of the suggestions of a 200 answer
\* or a failure (another status, an exception)
get_backend_recommendations(city, category, backend) ==
    IF backend.kind = "raise" THEN <<>>
    ELSE [i \in 1..Len(backend.value.v) |->
            Recommendation(backend.value.v[i], "recommendation", category)]

\* None, as _get_city_info returns it
NoCityInfo == [is_none |-> TRUE]

\* _get_city_info: the first entry of the metadata whose name is the city, in
\* any letter case
get_city_info(city_data, city) ==
    LET hits == {i \in 1..Len(city_data) : Lower(city_data[i].name) = Lower(city)}
    IN  IF hits = {} THEN NoCityInfo
        ELSE [is_none |-> FALSE,
              info |-> city_data[CHOOSE i \in hits : \A j \in hits : i <= j]]

get_attractions(city) ==
    <<Recommendation("Famous Museum in " \o city, "attraction", "cultural"),
      Recommendation("Historic Landmark in " \o city, "attraction", "historic")>>

get_restaurants(city) ==
    <<Recommendation("Local Cuisine Restaurant", "restaurant", "local"),
      Recommendation("Fine Dining Experience", "restaurant", "fine_dining")>>

get_activities(city) ==
    <<Recommendation("City Walking Tour", "activity", "guided_tour"),
      Recommendation("Adventure Activity", "activity", "adventure")>>

get_hotels(city) ==
    <<Recommendation("Luxury Hotel " \o city, "hotel", "luxury"),
      Recommendation("Boutique Hotel " \o city, "hotel", "boutique")>>

\* the season of a month of datetime.now()
SeasonOf(month) ==
    CASE month \in {12, 1, 2} -> "winter"
      [] month \in {3, 4, 5} -> "spring"
      [] month \in {6, 7, 8} -> "summer"
      [] OTHER -> "fall"

\* _get_seasonal_recommendations
get_seasonal_recommendations(city_info, month) ==
    IF city_info.is_none THEN <<>>
    ELSE IF SeasonOf(month) \notin DOMAIN city_info.info.seasons THEN <<>>
    ELSE LET seasonal_activities == city_info.info.seasons[SeasonOf(month)]
         IN  [i \in 1..Len(seasonal_activities) |->
                 Recommendation(seasonal_activities[i], "activity", "seasonal")]

\* recommendations[:20]
FirstRecommendations(recommendations) ==
    SubSeq(recommendations, 1,
           IF Len(recommendations) < RecommendationCap THEN Len(recommendations)
           ELSE RecommendationCap)

\* get_recommendations.  city_info is assigned only when the backend gave
\* nothing; when it gave something the read of city_info in the call of
\* _get_seasonal_recommendations raises UnboundLocalError, which the except
\* branch turns into []
get_recommendations(city_data, city, category, backend, month) ==
    LET backend_recommendations == get_backend_recommendations(city, category, backend)
        city_info_bound == backend_recommendations = <<>>
        city_info == get_city_info(city_data, city)
        by_category ==
            backend_recommendations
            \o (IF category \in {"all", "attractions"} THEN get_attractions(city) ELSE <<>>)
            \o (IF category \in {"all", "restaurants"} THEN get_restaurants(city) ELSE <<>>)
            \o (IF category \in {"all", "activities"} THEN get_activities(city) ELSE <<>>)
            \o (IF category \in {"all", "hotels"} THEN get_hotels(city) ELSE <<>>)
    IN  IF city_info_bound /\ city_info.is_none THEN <<>>
        ELSE IF ~city_info_bound THEN <<>>
        ELSE FirstRecommendations(by_category \o get_seasonal_recommendations(city_info, month))

----------------------------------------------------------------------------
(* The recommendation tool called on its own *)

BackendMany == 21

SeasonalMany == 13

Titles(prefix, n) == [i \in 1..n |-> prefix \o ToString(i)]

\* what city_metadata.json can hold: nothing (the file is missing), or two
\* cities with their seasons
CityDatas ==
    {<<>>,
     <<[name |-> "Toronto", seasons |-> [summer |-> <<"Harbourfront Festival">>,
                                          winter |-> <<"Skating at Nathan Phillips Square">>]],
       [name |-> "Vancouver", seasons |-> [winter |-> Titles("Ski day ", SeasonalMany)]]>>}

RecommendCities == {"Toronto", "vancouver", "Atlantis"}

Categories == {"all", "attractions", "restaurants", "activities", "hotels", "nightlife"}

Backends ==
    {Raise, Ret(PyList(<<>>)), Ret(PyList(<<"Old Port">>)),
     Ret(PyList(Titles("Suggestion ", BackendMany)))}

Months == {1, 4, 7, 10}

RecommendInit ==
    /\ phase = "idle"
    /\ impl = "recommend"
    /\ input \in [city_data : CityDatas, city : RecommendCities, category : Categories,
                   backend : Backends, month : Months]
    /\ state = <<>>
    /\ active = {}
    /\ nextActive = {}
    /\ executed = <<>>
    /\ frame = NoFrame
    /\ envelope = NoEnvelope
    /\ escaped = "none"
    /\ generation = "none"
    /\ results = <<>>
    /\ parked = NoRun

\* get_recommendations is called with the arguments; state holds what it
\* returns
RecommendCall ==
    /\ phase = "idle"
    /\ impl = "recommend"
    /\ state' = [recommendations |->
                    get_recommendations(input.city_data, input.city, input.category,
                                        input.backend, input.month)]
    /\ phase' = "returned"
    /\ UNCHANGED <<impl, input, active, nextActive, executed, frame, envelope, escaped,
                   generation, results, parked>>

RecommendSpec == RecommendInit /\ [][RecommendCall]_vars

Recommended == impl = "recommend" /\ phase = "returned"

\* C39: when the backend returns at least one recommendation for a city,
\* get_recommendations returns a non-empty list that begins with those
\* backend recommendations, capped at 20 entries, whether or not the city is
\* in the local city metadata.
C39_BackendRecommendationsReturned ==
    LET backend_recommendations ==
            get_backend_recommendations(input.city, input.category, input.backend)
    IN  (Recommended /\ backend_recommendations # <<>>) =>
            /\ state.recommendations # <<>>
            /\ Len(state.recommendations) <= 20
            /\ \A i \in 1..Len(state.recommendations) :
                   i <= Len(backend_recommendations) =>
                       state.recommendations[i] = backend_recommendations[i]
            /\ Len(state.recommendations) >= (IF Len(backend_recommendations) < 20 THEN Len(backend_recommendations) ELSE 20)

====
